---- MODULE Spec2Model ----
(***************************************************************************)
(* A model of the task-service layer of trello-task-manager-mcp.           *)
(*                                                                         *)
(* The remote Trello board is the state: an ordered sequence of lists,     *)
(* each an ordered sequence of cards; a card has a name, a description, a  *)
(* set of labels, the due-complete flag and an ordered sequence of         *)
(* checklists.  Every public operation of TrelloTaskService is one action  *)
(* that applies all the remote calls of the handler and records the call   *)
(* and its outcome in `last`.                                              *)
(*                                                                         *)
(* Text is a sequence of tokens; the empty sequence is the empty string    *)
(* and \o is string concatenation.                                         *)
(***************************************************************************)
EXTENDS Integers, Sequences, FiniteSets, TLC

VARIABLES
    lists,      \* the board: Seq of [name, cards]
    nextId,     \* id the board gives to the next card created
    last,       \* the last service call and what it returned or raised
    descLog,    \* history: card id -> texts given to add_task / update_task_description
    issues,     \* the issue tracker: Seq of [key, project, summary, description, status]
    nextKey,    \* number the tracker gives to the next issue created
    selected_board_list,  \* TrelloTaskManager.selected_board_list: a list's name, or None
    environ,    \* os.environ: variable name -> value, "" when unset
    reachable,  \* the backends whose server accepts the credentials of environ
    configs,    \* ConfigurationManager._configs: Seq of configs, in insertion order
    service_registry,  \* TaskServiceFactory._service_registry: type -> class
    initialized,       \* TaskServiceFactory._initialized
    trace,      \* history: the steps the last factory call went through
    calls,      \* the calls in progress on one TrelloTaskService: thread -> frame
    start       \* history: the board when the calls in progress were issued

vars == <<lists, nextId, last, descLog, issues, nextKey, selected_board_list,
          environ, reachable, configs, service_registry, initialized, trace,
          calls, start>>
trello == <<lists, nextId, descLog>>
jira == <<issues, nextKey>>
manager == <<selected_board_list>>
factory == <<environ, reachable, configs, service_registry, initialized, trace>>
threads == <<calls, start>>

---------------------------------------------------------------------------
(* Bounds of the model *)

MaxCards == 2       \* cards ever created on the board
MaxUpdates == 2     \* description updates applied to one card
MaxItems == 3       \* items held by one checklist
MaxIssues == 2      \* issues ever created in the tracker
MaxChecklists == 2  \* checklists TrelloTaskManager ever adds to one card

(* Inputs *)
Projects == {"P", "Q"}
Titles == {"T", "U"}
TaskTexts == {<<>>, <<"d">>}
UpdateTexts == {<<"x">>, <<"y">>}
ItemNames == {"a", "b"}
ItemLists == {<<>>, <<"a">>, <<"a", "b">>}
StatusInputs == {"todo", "wip", "done", "bogus"}
FilterInputs == {"all", "wip", "done", "other"}

None == "None"

---------------------------------------------------------------------------
(* Constants of trello_task_service.py *)

WIP_LABEL_NAME == "WIP"
DEFAULT_CHECKLIST_NAME == "Checklist"

\* self.labels after __init__: _create_default_labels stores a label for
\* every name of DEFAULT_LABELS; a label object is modelled by its name.
labels == [n \in {WIP_LABEL_NAME} |-> n]

LabelsGet(name) == IF name \in DOMAIN labels THEN labels[name] ELSE None

ValidStatuses == {"todo", "wip", "done"}

\* datetime.datetime.now().strftime("%Y-%m-%d %H:%M:%S")
Timestamp == "<timestamp>"

---------------------------------------------------------------------------
(* Sequence helpers *)

\* next((x for x in seq if Test(x)), None) as an index, 0 for None
FirstIndex(seq, Test(_)) ==
    IF \E i \in 1..Len(seq) : Test(seq[i])
    THEN CHOOSE i \in 1..Len(seq) :
            Test(seq[i]) /\ \A j \in 1..(i - 1) : ~Test(seq[j])
    ELSE 0

IsPrefix(s, t) == Len(s) <= Len(t) /\ SubSeq(t, 1, Len(s)) = s
IsSuffix(s, t) == Len(s) <= Len(t) /\ SubSeq(t, Len(t) - Len(s) + 1, Len(t)) = s

---------------------------------------------------------------------------
(* The remote board, as the py-trello objects show it *)

\* board_list.add_card(name=title, desc=description, position="bottom")
NewCard(id, title, description) ==
    [id |-> id, name |-> title, desc |-> description, labels |-> {},
     is_due_complete |-> FALSE, checklists |-> <<>>]

\* card.add_label(label) / card.remove_label(label) / card.set_due_complete()
add_label(card, label) == [card EXCEPT !.labels = @ \cup {label}]
remove_label(card, label) == [card EXCEPT !.labels = @ \ {label}]
set_due_complete(card) == [card EXCEPT !.is_due_complete = TRUE]
clear_due_complete(card) == [card EXCEPT !.is_due_complete = FALSE]

\* What a library call can do that the source leaves to the installed
\* py-trello and to the remote API:
\*  - card.set_due_complete(False): py-trello's Card.set_due_complete takes no
\*    argument, so the call raises TypeError; a client that accepts the
\*    argument clears the flag.
\*  - card.add_label of a label the card already carries: the remote API
\*    rejects it, or accepts it and changes nothing.
DueCompleteArgOutcomes == {"raises", "clears"}
AddLabelTwiceOutcomes == {"rejected", "accepted"}

\* self.selected_board.all_lists() searched by name
find_existing_list(board, project_name) ==
    FirstIndex(board, LAMBDA board_list : board_list.name = project_name)

\* a variant of find_card: the last card of that name
find_card_last(cards, title) ==
    IF \E c \in DOMAIN cards : cards[c].name = title
    THEN CHOOSE c \in DOMAIN cards :
            /\ cards[c].name = title
            /\ \A k \in DOMAIN cards : cards[k].name = title => k <= c
    ELSE 0

\* next((card for card in board_list.list_cards() if card.name == title), None)
find_card(cards, title) == FirstIndex(cards, LAMBDA card : card.name = title)

\* _find_card_or_raise: <<list index, card index>>, <<0, 0>> for TaskNotFoundError
find_card_or_raise(board, project_name, title) ==
    LET li == find_existing_list(board, project_name) IN
    IF li = 0 THEN <<0, 0>>
    ELSE LET ci == find_card(board[li].cards, title) IN
         IF ci = 0 THEN <<0, 0>> ELSE <<li, ci>>

CardAt(board, at) == board[at[1]].cards[at[2]]

PutCard(board, at, card) ==
    [board EXCEPT ![at[1]].cards[at[2]] = card]

\* whether the board holds a card with the id
HasCardId(board, id) ==
    \E l \in DOMAIN board : \E c \in DOMAIN board[l].cards : board[l].cards[c].id = id

\* _find_or_create_list: the board after the call (add_list puts the new
\* list on the board) and the index of the list found or created
find_or_create_list(board, project_name) ==
    LET li == find_existing_list(board, project_name) IN
    IF li = 0
    THEN [board |-> Append(board, [name |-> project_name, cards |-> <<>>]),
          li |-> Len(board) + 1]
    ELSE [board |-> board, li |-> li]

\* a variant of get_task_status_of: the WIP label is tested before the flag
get_task_status_of_wip_first(card, wip_label) ==
    LET has_wip == IF wip_label # None
                   THEN \E label \in card.labels : label = wip_label
                   ELSE FALSE
    IN IF has_wip THEN "wip"
       ELSE IF card.is_due_complete THEN "done"
       ELSE "todo"

\* _get_task_status(card, wip_label)
get_task_status_of(card, wip_label) ==
    LET has_wip == IF wip_label # None
                   THEN \E label \in card.labels : label = wip_label
                   ELSE FALSE
        is_completed == card.is_due_complete
    IN IF is_completed THEN "done"
       ELSE IF has_wip THEN "wip"
       ELSE "todo"

\* a variant in which the filter "wip" lets every started task through
should_include_task_started(status, filter_type) ==
    CASE filter_type = "all" -> TRUE
      [] filter_type = "wip" -> status # "todo"
      [] filter_type = "done" -> status = "done"
      [] OTHER -> FALSE

\* _should_include_task(status, filter_type)
should_include_task(status, filter_type) ==
    CASE filter_type = "all" -> TRUE
      [] filter_type = "wip" -> status = "wip"
      [] filter_type = "done" -> status = "done"
      [] OTHER -> FALSE

\* _create_task_dict(card, status)
create_task_dict(card, status) ==
    [name |-> card.name, description |-> card.desc, status |-> status, id |-> card.id]

---------------------------------------------------------------------------
(* Exceptions: what the try/except blocks of the two adapters let out *)

Operations ==
    {"add_task", "get_next_task", "mark_as_in_progress", "mark_as_completed",
     "update_task_description", "update_task_with_checklist",
     "complete_checklist_item", "get_next_unchecked_checklist_item",
     "get_tasks", "get_task_status", "set_task_status", "delete_all_tasks"}

\* the domain errors of task_service.py
DomainErrors ==
    {"TaskNotFoundError", "ChecklistNotFoundError", "ChecklistItemNotFoundError",
     "NoAvailableTasksError", "InvalidTaskStatusError"}

\* what a failing remote call raises: an exception of the HTTP library or
\* any other one, with its own message
RemoteExceptions == {"RequestException", "Exception"}
OriginalMessage == <<"boom">>

\* an exception: its type, str(e) and, for the errors that have one, the
\* details attribute
Exception(type, message) == [type |-> type, message |-> message, details |-> <<>>]

\* TaskServiceConnectionError(backend_name, details), task_service.py 68-74
TaskServiceConnectionError(backend_name, details) ==
    [type |-> "TaskServiceConnectionError",
     message |-> <<"Connection error with ", backend_name, " backend">>
                    \o (IF details # <<>> THEN <<": ">> \o details ELSE <<>>),
     details |-> details]

\* the types the `except (...): raise` clause of the operation lets through
trello_reraised(op) ==
    CASE op = "get_next_task" -> {"NoAvailableTasksError", "TaskServiceConnectionError"}
      [] op \in {"mark_as_in_progress", "mark_as_completed", "update_task_description",
                 "update_task_with_checklist", "get_task_status"} ->
            {"TaskNotFoundError"}
      [] op = "complete_checklist_item" -> {"TaskNotFoundError", "ChecklistNotFoundError"}
      [] op = "get_next_unchecked_checklist_item" ->
            {"TaskNotFoundError", "ChecklistNotFoundError", "ChecklistItemNotFoundError"}
      [] op = "set_task_status" -> {"TaskNotFoundError", "InvalidTaskStatusError"}
      [] OTHER -> {}

\* the text before {e!s} in the operation's `except Exception` clause
trello_failed_to(op) ==
    CASE op = "add_task" -> "Failed to add task: "
      [] op = "get_next_task" -> "Failed to get next task: "
      [] op = "mark_as_in_progress" -> "Failed to mark task as in progress: "
      [] op = "mark_as_completed" -> "Failed to mark task as completed: "
      [] op = "update_task_description" -> "Failed to update task description: "
      [] op = "update_task_with_checklist" -> "Failed to update task checklist: "
      [] op = "complete_checklist_item" -> "Failed to complete checklist item: "
      [] op = "get_next_unchecked_checklist_item" ->
            "Failed to get next unchecked checklist item: "
      [] op = "get_tasks" -> "Failed to get tasks: "
      [] op = "get_task_status" -> "Failed to get task status: "
      [] op = "set_task_status" -> "Failed to set task status: "
      [] op = "delete_all_tasks" -> "Failed to delete tasks: "

\* a variant that lets every exception through as it is
trello_except_bare(op, e) == e

\* the except clauses of a TrelloTaskService operation, given the exception
\* e raised in its try block
trello_except(op, e) ==
    IF e.type \in trello_reraised(op)
    THEN e
    ELSE TaskServiceConnectionError("Trello", <<trello_failed_to(op)>> \o e.message)

\* the domain errors the try block of the operation raises by itself
trello_raises(op) ==
    CASE op = "get_next_task" -> {"NoAvailableTasksError"}
      [] op \in {"mark_as_in_progress", "mark_as_completed", "update_task_description",
                 "update_task_with_checklist", "complete_checklist_item",
                 "get_task_status", "set_task_status"} -> {"TaskNotFoundError"}
      [] op = "get_next_unchecked_checklist_item" ->
            {"TaskNotFoundError", "ChecklistNotFoundError"}
      [] OTHER -> {}

\* the domain errors the operation raises outside its try block
trello_raises_outside(op) ==
    CASE op = "complete_checklist_item" -> {"ChecklistNotFoundError"}
      [] op = "set_task_status" -> {"InvalidTaskStatusError"}
      [] OTHER -> {}

\* _make_request, lines 72-93: an exception of the HTTP library becomes a
\* TaskServiceConnectionError, any other exception leaves as it is
make_request_except(e) ==
    IF e.type = "RequestException"
    THEN TaskServiceConnectionError("JIRA", <<"Request failed: ">> \o e.message)
    ELSE e

jira_reraised(op) ==
    CASE op = "get_next_task" -> {"NoAvailableTasksError"}
      [] op \in {"mark_as_in_progress", "mark_as_completed", "update_task_description",
                 "update_task_with_checklist", "get_task_status"} ->
            {"TaskNotFoundError", "TaskServiceConnectionError"}
      [] op \in {"complete_checklist_item", "get_next_unchecked_checklist_item"} ->
            {"TaskNotFoundError", "ChecklistItemNotFoundError",
             "TaskServiceConnectionError"}
      [] op = "set_task_status" ->
            {"TaskNotFoundError", "InvalidTaskStatusError", "TaskServiceConnectionError"}
      [] OTHER -> {}

jira_failed_to(op) ==
    CASE op = "add_task" -> "Failed to create task: "
      [] op = "get_next_task" -> "Failed to get next task: "
      [] op = "mark_as_in_progress" -> "Failed to mark task as in progress: "
      [] op = "mark_as_completed" -> "Failed to mark task as completed: "
      [] op = "update_task_description" -> "Failed to update task description: "
      [] op = "update_task_with_checklist" -> "Failed to update task with checklist: "
      [] op = "complete_checklist_item" -> "Failed to complete checklist item: "
      [] op = "get_next_unchecked_checklist_item" ->
            "Failed to get next unchecked checklist item: "
      [] op = "get_tasks" -> "Failed to get tasks: "
      [] op = "get_task_status" -> "Failed to get task status: "
      [] op = "set_task_status" -> "Failed to set task status: "
      [] op = "delete_all_tasks" -> "Failed to delete tasks: "

\* the except clauses of a JiraTaskService operation
jira_except(op, e) ==
    IF e.type \in jira_reraised(op)
    THEN e
    ELSE TaskServiceConnectionError("JIRA", <<jira_failed_to(op)>> \o e.message)

jira_raises(op) ==
    CASE op = "get_next_task" -> {"NoAvailableTasksError"}
      [] op \in {"mark_as_in_progress", "mark_as_completed", "update_task_description",
                 "update_task_with_checklist", "get_task_status", "set_task_status"} ->
            {"TaskNotFoundError"}
      [] op \in {"complete_checklist_item", "get_next_unchecked_checklist_item"} ->
            {"TaskNotFoundError", "ChecklistItemNotFoundError"}
      [] OTHER -> {}

jira_raises_outside(op) ==
    CASE op = "set_task_status" -> {"InvalidTaskStatusError"}
      [] OTHER -> {}

---------------------------------------------------------------------------
(* The record of a call *)

NoPre == [found |-> FALSE, wip |-> FALSE, done |-> FALSE]

\* the markers of the card a title-based call addresses, before the call
PreOf(board, project_name, title) ==
    LET at == find_card_or_raise(board, project_name, title) IN
    IF at = <<0, 0>> THEN NoPre
    ELSE [found |-> TRUE,
          wip |-> WIP_LABEL_NAME \in CardAt(board, at).labels,
          done |-> CardAt(board, at).is_due_complete]

SameCall(op, project_name, title, arg) ==
    /\ last.op = op
    /\ last.project = project_name
    /\ last.title = title
    /\ last.arg = arg

Record(op, project_name, title, arg, result, value, pre, remote) ==
    [op |-> op, project |-> project_name, title |-> title, arg |-> arg,
     result |-> result, value |-> value, pre |-> pre,
     again |-> SameCall(op, project_name, title, arg),
     remote |-> remote, cause |-> None, details |-> <<>>]

\* the call record of an operation whose try block returned (result "ok")
\* or raised the exception e: what the except clauses Except(e) let out
Outcome(record, e, out) ==
    [record EXCEPT !.result = out.type, !.cause = e.type, !.details = out.details]

Called(op, project_name, title, arg, result, value) ==
    LET record == Record(op, project_name, title, arg, result, value,
                         PreOf(lists, project_name, title), TRUE)
        e == Exception(result, <<>>)
    IN IF result = "ok" THEN record ELSE Outcome(record, e, trello_except(op, e))

\* a call that ended before its first remote call
CalledLocal(op, project_name, title, arg, result) ==
    LET record == Record(op, project_name, title, arg, result, None, NoPre, FALSE)
        e == Exception(result, <<>>)
    IN Outcome(record, e, e)

---------------------------------------------------------------------------
(* TrelloTaskService: what the read operations return on a board *)

\* get_task_status(project_name, title)
get_task_status_result(board, project_name, title) ==
    LET at == find_card_or_raise(board, project_name, title) IN
    IF at = <<0, 0>>
    THEN [result |-> "TaskNotFoundError", value |-> None]
    ELSE [result |-> "ok",
          value |-> get_task_status_of(CardAt(board, at), LabelsGet(WIP_LABEL_NAME))]

\* get_tasks(project_name, filter_type)
get_tasks_result(board, project_name, filter_type) ==
    LET li == find_existing_list(board, project_name) IN
    IF li = 0
    THEN [result |-> "ok", value |-> <<>>]
    ELSE LET cards == board[li].cards
             wip_label == LabelsGet(WIP_LABEL_NAME)
             dicts == [i \in 1..Len(cards) |->
                         create_task_dict(cards[i], get_task_status_of(cards[i], wip_label))]
         IN [result |-> "ok",
             value |-> SelectSeq(dicts,
                          LAMBDA task : should_include_task(task.status, filter_type))]

\* a variant that looks at the WIP label only
find_next_available_card_any_due(cards, wip_label) ==
    FirstIndex(cards, LAMBDA card :
        LET has_wip == \E label \in card.labels : label = wip_label
        IN ~has_wip)

\* _find_next_available_card(board_list, wip_label): index of the card, 0 for none
find_next_available_card(cards, wip_label) ==
    FirstIndex(cards, LAMBDA card :
        LET has_wip == \E label \in card.labels : label = wip_label
        IN ~has_wip /\ ~card.is_due_complete)

\* get_next_task(project_name)
get_next_task_result(board, project_name) ==
    LET wip_label == LabelsGet(WIP_LABEL_NAME)
        li == find_existing_list(board, project_name)
    IN IF wip_label = None
       THEN [result |-> "TaskServiceConnectionError", value |-> None]
       ELSE IF li = 0
       THEN [result |-> "NoAvailableTasksError", value |-> None]
       ELSE LET ci == find_next_available_card(board[li].cards, wip_label) IN
            IF ci = 0
            THEN [result |-> "NoAvailableTasksError", value |-> None]
            ELSE [result |-> "ok", value |-> board[li].cards[ci].id]

---------------------------------------------------------------------------
(* TrelloTaskService: the marker operations on the card found *)

\* a variant of mark_as_in_progress_on: the label is never added
mark_as_in_progress_on_no_label(card, twice) ==
    [card |-> card, result |-> "ok"]

\* a variant of mark_as_in_progress_on: the card is reopened as well
mark_as_in_progress_on_reopening(card, twice) ==
    [card |-> clear_due_complete(add_label(card, labels[WIP_LABEL_NAME])), result |-> "ok"]

\* mark_as_in_progress, lines 78-79
mark_as_in_progress_on(card, twice) ==
    IF WIP_LABEL_NAME \in DOMAIN labels
    THEN IF labels[WIP_LABEL_NAME] \in card.labels /\ twice = "rejected"
         THEN [card |-> card, result |-> "TaskServiceConnectionError"]
         ELSE [card |-> add_label(card, labels[WIP_LABEL_NAME]), result |-> "ok"]
    ELSE [card |-> card, result |-> "ok"]

\* a variant of mark_as_completed_on: the WIP label is left on the card
mark_as_completed_on_keep_label(card) ==
    [card |-> set_due_complete(card), result |-> "ok"]

\* mark_as_completed, lines 91-93
mark_as_completed_on(card) ==
    LET c1 == IF WIP_LABEL_NAME \in DOMAIN labels
                 /\ labels[WIP_LABEL_NAME] \in card.labels
              THEN remove_label(card, labels[WIP_LABEL_NAME])
              ELSE card
    IN [card |-> set_due_complete(c1), result |-> "ok"]

\* a variant of set_task_status_on: the markers are not cleared first
set_task_status_on_no_clear(card, status, dueArg) ==
    LET wip_label == LabelsGet(WIP_LABEL_NAME) IN
    [card |-> IF status = "wip" /\ wip_label # None THEN add_label(card, wip_label)
              ELSE IF status = "done" THEN set_due_complete(card)
              ELSE card,
     result |-> "ok"]

\* set_task_status, lines 229-243: the card as listed decides the branches,
\* the remote card takes the effects in order; an exception leaves the
\* effects already applied
set_task_status_on(card, status, dueArg) ==
    LET wip_label == LabelsGet(WIP_LABEL_NAME)
        c1 == IF wip_label # None /\ wip_label \in card.labels
              THEN remove_label(card, wip_label)
              ELSE card
        c2 == IF card.is_due_complete THEN clear_due_complete(c1) ELSE c1
        c3 == IF status = "wip" /\ wip_label # None THEN add_label(c2, wip_label)
              ELSE IF status = "done" THEN set_due_complete(c2)
              ELSE c2
    IN IF card.is_due_complete /\ dueArg = "raises"
       THEN [card |-> c1, result |-> "TaskServiceConnectionError"]
       ELSE [card |-> c3, result |-> "ok"]

---------------------------------------------------------------------------
(* Configuration: service_types.py and service_config.py *)

\* A string whose length or prefix the code inspects is a sequence of
\* characters; the empty sequence is the empty string, which is also what
\* os.getenv(name, "") gives for a variable that is not set.
Key10 == <<"0", "1", "2", "3", "4", "5", "6", "7", "8", "9">>
Key3 == <<"k", "e", "y">>
Name1 == <<"n">>
HttpsUrl == <<"h", "t", "t", "p", "s", ":", "/", "/", "x">>
HttpUrl == <<"h", "t", "t", "p", ":", "/", "/", "x">>
FtpUrl == <<"f", "t", "p", ":", "/", "/", "x">>
ProjectKey2 == <<"P", "K">>
ProjectKey1 == <<"P">>

\* str.startswith
startswith(string, prefix) ==
    /\ Len(string) >= Len(prefix)
    /\ SubSeq(string, 1, Len(prefix)) = prefix

\* the values of the ServiceType enum
ServiceType == {"trello", "jira"}

\* the identifiers given to the factory and to ACTIVE_TASK_SERVICE
ServiceNames == {"trello", "jira", "JIRA", "asana"}

\* str.lower on the identifiers
lower(service_type) == IF service_type = "JIRA" THEN "jira" ELSE service_type

\* an exception of service_config.py or of the factory: its class, str(e),
\* its missing_keys and the class of the exception it was raised from
Raised(type, message, missing_keys, cause) ==
    [type |-> type, message |-> message, missing_keys |-> missing_keys, cause |-> cause]

\* no exception: the call returned
Returned == Raised("ok", <<>>, <<>>, None)

\* ServiceType.from_string
from_string(service_type) ==
    IF lower(service_type) \in ServiceType
    THEN [raised |-> Returned, value |-> lower(service_type)]
    ELSE [raised |-> Raised("ValueError", <<"Unsupported service type '", service_type, "'">>,
                            <<>>, None),
          value |-> None]

MissingConfigurationError(service_name, missing_keys) ==
    Raised("MissingConfigurationError",
           <<"Missing required configuration for ", service_name, ": ">> \o missing_keys,
           missing_keys, None)

InvalidConfigurationError(service_name, key, reason) ==
    Raised("InvalidConfigurationError",
           <<"Invalid configuration for ", service_name, ".", key, ": ", reason>>, <<>>, None)

UnknownServiceTypeError(service_type, cause) ==
    Raised("UnknownServiceTypeError", <<"Unknown service type: ">> \o service_type, <<>>, cause)

TrelloConfig(api_key, api_token, board_name) ==
    [service_name |-> "trello", api_key |-> api_key, api_token |-> api_token,
     board_name |-> board_name]

JiraConfig(server_url, username, api_token, project_key) ==
    [service_name |-> "jira", server_url |-> server_url, username |-> username,
     api_token |-> api_token, project_key |-> project_key]

\* the config argument of a call that gives none
NoConfig == [service_name |-> None]

\* the fields of config, of those in keys, that are empty, in the order of keys
missing_keys_of(config, keys) == SelectSeq(keys, LAMBDA key : config[key] = <<>>)

\* a variant that looks at the format of the key and the token first
TrelloConfig_validate_format_first(config) ==
    LET missing_keys == missing_keys_of(config, <<"api_key", "api_token", "board_name">>) IN
    IF config.api_key # <<>> /\ Len(config.api_key) < 10
    THEN InvalidConfigurationError(config.service_name, "api_key", "API key too short")
    ELSE IF config.api_token # <<>> /\ Len(config.api_token) < 10
    THEN InvalidConfigurationError(config.service_name, "api_token", "API token too short")
    ELSE IF missing_keys # <<>>
    THEN MissingConfigurationError(config.service_name, missing_keys)
    ELSE Returned

\* TrelloConfig.validate
TrelloConfig_validate(config) ==
    LET missing_keys == missing_keys_of(config, <<"api_key", "api_token", "board_name">>) IN
    IF missing_keys # <<>>
    THEN MissingConfigurationError(config.service_name, missing_keys)
    ELSE IF Len(config.api_key) < 10
    THEN InvalidConfigurationError(config.service_name, "api_key", "API key too short")
    ELSE IF Len(config.api_token) < 10
    THEN InvalidConfigurationError(config.service_name, "api_token", "API token too short")
    ELSE Returned

\* JiraConfig.validate
JiraConfig_validate(config) ==
    LET missing_keys ==
            missing_keys_of(config, <<"server_url", "username", "api_token", "project_key">>) IN
    IF missing_keys # <<>>
    THEN MissingConfigurationError(config.service_name, missing_keys)
    ELSE IF ~(\/ startswith(config.server_url, <<"h", "t", "t", "p", ":", "/", "/">>)
              \/ startswith(config.server_url, <<"h", "t", "t", "p", "s", ":", "/", "/">>))
    THEN InvalidConfigurationError(config.service_name, "server_url",
                                   "Must start with http:// or https://")
    ELSE IF Len(config.project_key) < 2
    THEN InvalidConfigurationError(config.service_name, "project_key", "Project key too short")
    ELSE Returned

\* config.validate(), by the class of config
validate(config) ==
    IF config.service_name = "trello" THEN TrelloConfig_validate(config)
    ELSE JiraConfig_validate(config)

\* TrelloConfig.from_env / JiraConfig.from_env
TrelloConfig_from_env(env) ==
    TrelloConfig(env.TRELLO_API_KEY, env.TRELLO_API_TOKEN, env.TRELLO_BOARD_NAME)

JiraConfig_from_env(env) ==
    JiraConfig(env.JIRA_SERVER_URL, env.JIRA_USERNAME, env.JIRA_API_TOKEN,
               env.JIRA_PROJECT_KEY)

\* ConfigurationManager.has_config / list_services: _configs is a dict, which
\* keeps its keys in the order they were first inserted
has_config(cfgs, service_name) ==
    \E i \in 1..Len(cfgs) : cfgs[i].service_name = service_name

list_services(cfgs) == [i \in 1..Len(cfgs) |-> cfgs[i].service_name]

\* cls._configs[config.service_name] = config
store_config(cfgs, config) ==
    IF has_config(cfgs, config.service_name)
    THEN [i \in 1..Len(cfgs) |->
             IF cfgs[i].service_name = config.service_name THEN config ELSE cfgs[i]]
    ELSE Append(cfgs, config)

\* ConfigurationManager.register_config
register_config_result(cfgs, config) ==
    LET e == validate(config) IN
    IF e.type # "ok" THEN [raised |-> e, configs |-> cfgs]
    ELSE [raised |-> Returned, configs |-> store_config(cfgs, config)]

\* ConfigurationManager.load_from_env
load_from_env_result(cfgs, env, service_type) ==
    IF service_type = "trello" THEN register_config_result(cfgs, TrelloConfig_from_env(env))
    ELSE IF service_type = "jira" THEN register_config_result(cfgs, JiraConfig_from_env(env))
    ELSE [raised |-> UnknownServiceTypeError(<<service_type>>, None), configs |-> cfgs]

\* ConfigurationManager.get_active_service
get_active_service(cfgs, env) ==
    LET active_service == env.ACTIVE_TASK_SERVICE
        services == list_services(cfgs)
    IN IF active_service # "" /\ has_config(cfgs, active_service) THEN active_service
       ELSE IF services # <<>> THEN services[1]
       ELSE None

\* an environment in which both backends are configured and none is selected
ConfiguredEnviron ==
    [ACTIVE_TASK_SERVICE |-> "",
     TRELLO_API_KEY |-> Key10, TRELLO_API_TOKEN |-> Key10, TRELLO_BOARD_NAME |-> Name1,
     JIRA_SERVER_URL |-> HttpsUrl, JIRA_USERNAME |-> Name1, JIRA_API_TOKEN |-> Key3,
     JIRA_PROJECT_KEY |-> ProjectKey2]

\* TaskServiceFactory._service_registry after _initialize_default_services
DefaultRegistry ==
    [service_type \in ServiceType |->
        IF service_type = "trello" THEN "TrelloTaskService" ELSE "JiraTaskService"]

---------------------------------------------------------------------------
(* Calls in progress on one TrelloTaskService instance *)

\* the threads that call the instance
Threads == {1, 2}

\* The frame of a call: its arguments, the remote call it makes next (at),
\* its local variables (board_list: index of the list found, card: id of
\* the card found, cards: ids of the cards listed, text: the description
\* fetched) and, once it returned, what it returned or raised.
Frame(op, project_name, title, arg) ==
    [op |-> op, project |-> project_name, title |-> title, arg |-> arg,
     at |-> "all_lists", board_list |-> 0, card |-> 0, cards |-> <<>>, text |-> <<>>,
     result |-> "", value |-> ""]

\* no call in progress
IdleFrame == [Frame("", "", "", <<>>) EXCEPT !.at = "idle"]

---------------------------------------------------------------------------
(* TrelloTaskService: the operations *)

Init ==
    /\ lists = <<>>
    /\ nextId = 1
    /\ descLog = <<>>
    /\ last = [op |-> "init", project |-> None, title |-> None, arg |-> None,
               result |-> "ok", value |-> None, pre |-> NoPre, again |-> FALSE,
               remote |-> FALSE, cause |-> None, details |-> <<>>]
    /\ issues = <<>>
    /\ nextKey = 1
    /\ selected_board_list = None
    /\ environ = ConfiguredEnviron
    /\ reachable = ServiceType
    /\ configs = <<>>
    /\ service_registry = [service_type \in ServiceType |-> None]
    /\ initialized = FALSE
    /\ trace = <<>>
    /\ calls = [t \in Threads |-> IdleFrame]
    /\ start = [lists |-> <<>>, nextId |-> 1, descLog |-> <<>>]

add_task(project_name, title, description) ==
    /\ nextId <= MaxCards
    /\ LET r == find_or_create_list(lists, project_name)
           card == NewCard(nextId, title, description)
       IN lists' = [r.board EXCEPT ![r.li].cards = Append(@, card)]
    /\ nextId' = nextId + 1
    /\ descLog' = Append(descLog, <<description>>)
    /\ last' = Called("add_task", project_name, title, description, "ok", nextId)
    /\ UNCHANGED <<jira, manager, factory, threads>>

get_next_task(project_name) ==
    /\ LET r == get_next_task_result(lists, project_name)
       IN last' = Called("get_next_task", project_name, None, None, r.result, r.value)
    /\ UNCHANGED <<trello, jira, manager, factory, threads>>

\* a title-based operation that acts on the card found by Act(card)
OnCard(op, project_name, title, arg, Act(_)) ==
    LET at == find_card_or_raise(lists, project_name, title) IN
    /\ IF at = <<0, 0>>
       THEN /\ last' = Called(op, project_name, title, arg, "TaskNotFoundError", None)
            /\ lists' = lists
       ELSE LET r == Act(CardAt(lists, at)) IN
            /\ lists' = PutCard(lists, at, r.card)
            /\ last' = Called(op, project_name, title, arg, r.result,
                              IF r.result = "ok" THEN r.card.id ELSE None)
    /\ UNCHANGED <<nextId, descLog, jira, manager, factory, threads>>

mark_as_in_progress(project_name, title) ==
    \E twice \in AddLabelTwiceOutcomes :
        OnCard("mark_as_in_progress", project_name, title, None,
               LAMBDA card : mark_as_in_progress_on(card, twice))

mark_as_completed(project_name, title) ==
    OnCard("mark_as_completed", project_name, title, None,
           LAMBDA card : mark_as_completed_on(card))

get_tasks(project_name, filter_type) ==
    /\ LET r == get_tasks_result(lists, project_name, filter_type)
       IN last' = Called("get_tasks", project_name, None, filter_type, r.result, r.value)
    /\ UNCHANGED <<trello, jira, manager, factory, threads>>

get_task_status(project_name, title) ==
    /\ LET r == get_task_status_result(lists, project_name, title)
       IN last' = Called("get_task_status", project_name, title, None, r.result, r.value)
    /\ UNCHANGED <<trello, jira, manager, factory, threads>>

\* a variant of set_task_status: the task is looked up before the status is checked
set_task_status_lookup_first(project_name, title, status) ==
    \E dueArg \in DueCompleteArgOutcomes :
        OnCard("set_task_status", project_name, title, status,
               LAMBDA card :
                  IF status \notin ValidStatuses
                  THEN [card |-> card, result |-> "InvalidTaskStatusError"]
                  ELSE set_task_status_on(card, status, dueArg))

set_task_status(project_name, title, status) ==
    IF status \notin ValidStatuses
    THEN /\ last' = CalledLocal("set_task_status", project_name, title, status,
                                "InvalidTaskStatusError")
         /\ UNCHANGED <<lists, nextId, descLog, jira, manager, factory, threads>>
    ELSE \E dueArg \in DueCompleteArgOutcomes :
            OnCard("set_task_status", project_name, title, status,
                   LAMBDA card : set_task_status_on(card, status, dueArg))

\* a variant that looks the list up with _find_or_create_list
delete_all_tasks_creating(project_name) ==
    LET r == find_or_create_list(lists, project_name) IN
    /\ lists' = [r.board EXCEPT ![r.li].cards = <<>>]
    /\ descLog' = descLog
    /\ last' = Called("delete_all_tasks", project_name, None, None, "ok", "deleted")
    /\ UNCHANGED <<nextId, jira, manager, factory, threads>>

delete_all_tasks(project_name) ==
    LET li == find_existing_list(lists, project_name) IN
    /\ IF li = 0
       THEN /\ lists' = lists
            /\ descLog' = descLog
            /\ last' = Called("delete_all_tasks", project_name, None, None, "ok", "not found")
       ELSE /\ lists' = [lists EXCEPT ![li].cards = <<>>]
            /\ descLog' = [id \in DOMAIN descLog |->
                             IF \E i \in DOMAIN lists[li].cards : lists[li].cards[i].id = id
                             THEN <<>> ELSE descLog[id]]
            /\ last' = Called("delete_all_tasks", project_name, None, None, "ok", "deleted")
    /\ UNCHANGED <<nextId, jira, manager, factory, threads>>

---------------------------------------------------------------------------
(* TrelloTaskService: description *)

\* f"{existing_description}\n\n--- Updated on {timestamp} ---\n{description}"
UpdatedText(existing_description, description) ==
    existing_description
        \o <<"\n\n--- Updated on ", Timestamp, " ---\n">>
        \o description

\* f"--- Created on {timestamp} ---\n{description}"
CreatedText(description) ==
    <<"--- Created on ", Timestamp, " ---\n">> \o description

\* a variant of update_task_description_on: the new text replaces the old one
update_task_description_on_overwrite(card, description) ==
    [card |-> [card EXCEPT !.desc = CreatedText(description)], result |-> "ok"]

\* update_task_description, lines 106-116
update_task_description_on(card, description) ==
    LET existing_description == card.desc
        updated_description ==
            IF existing_description # <<>>
            THEN UpdatedText(existing_description, description)
            ELSE CreatedText(description)
    IN [card |-> [card EXCEPT !.desc = updated_description], result |-> "ok"]

\* the updates a description went through (one timestamp per update)
UpdatesIn(desc) == Cardinality({i \in DOMAIN desc : desc[i] = Timestamp})

update_task_description(project_name, title, description) ==
    LET at == find_card_or_raise(lists, project_name, title) IN
    /\ at # <<0, 0>> => UpdatesIn(CardAt(lists, at).desc) < MaxUpdates
    /\ IF at = <<0, 0>>
       THEN /\ lists' = lists
            /\ descLog' = descLog
            /\ last' = Called("update_task_description", project_name, title,
                              description, "TaskNotFoundError", None)
       ELSE LET r == update_task_description_on(CardAt(lists, at), description) IN
            /\ lists' = PutCard(lists, at, r.card)
            /\ descLog' = [descLog EXCEPT ![r.card.id] = Append(@, description)]
            /\ last' = Called("update_task_description", project_name, title,
                              description, r.result, r.card.id)
    /\ UNCHANGED <<nextId, jira, manager, factory, threads>>

---------------------------------------------------------------------------
(* TrelloTaskService: checklists *)

\* What checklist.set_checklist_item(name, True) does when several items
\* carry the name is the installed py-trello's choice: it sets the first of
\* them, or (its index lookup wants exactly one match) it sets none.
DuplicateNameOutcomes == {"first", "none"}

\* the first checklist of the card named DEFAULT_CHECKLIST_NAME, 0 for none
find_default_checklist(card) ==
    FirstIndex(card.checklists, LAMBDA checklist : checklist.name = DEFAULT_CHECKLIST_NAME)

\* card.add_checklist(DEFAULT_CHECKLIST_NAME, checklist_items)
add_checklist(card, name, checklist_items) ==
    LET k == Len(card.checklists) + 1 IN
    [card EXCEPT !.checklists = Append(@,
        [name |-> name,
         items |-> [i \in 1..Len(checklist_items) |->
                      [id |-> <<k, i>>, name |-> checklist_items[i], checked |-> FALSE]]])]

\* a variant that recreates the checklist's items, all unchecked
add_checklist_items_reset(card, k, checklist_items) ==
    LET n == Len(card.checklists[k].items) IN
    [card EXCEPT !.checklists[k].items =
        [i \in 1..n |-> [@[i] EXCEPT !.checked = FALSE]] \o
        [i \in 1..Len(checklist_items) |->
           [id |-> <<k, n + i>>, name |-> checklist_items[i], checked |-> FALSE]]]

\* existing_checklist.add_checklist_item(item) for every item
add_checklist_items(card, k, checklist_items) ==
    LET n == Len(card.checklists[k].items) IN
    [card EXCEPT !.checklists[k].items = @ \o
        [i \in 1..Len(checklist_items) |->
           [id |-> <<k, n + i>>, name |-> checklist_items[i], checked |-> FALSE]]]

\* a variant that creates a new checklist on every call
update_task_with_checklist_on_new(card, checklist_items) ==
    [card |-> add_checklist(card, DEFAULT_CHECKLIST_NAME, checklist_items),
     result |-> "ok"]

\* update_task_with_checklist, lines 129-144
update_task_with_checklist_on(card, checklist_items) ==
    LET existing_checklist == find_default_checklist(card) IN
    IF existing_checklist # 0
    THEN [card |-> add_checklist_items(card, existing_checklist, checklist_items),
          result |-> "ok"]
    ELSE [card |-> add_checklist(card, DEFAULT_CHECKLIST_NAME, checklist_items),
          result |-> "ok"]

\* checklist.set_checklist_item(name, True): the items after the call
set_checklist_item(items, name, dup) ==
    LET matches == {i \in DOMAIN items : items[i].name = name}
        ix == IF matches = {} THEN 0
              ELSE IF Cardinality(matches) = 1 \/ dup = "first"
              THEN CHOOSE i \in matches : \A j \in matches : i <= j
              ELSE 0
    IN IF ix = 0 THEN items ELSE [items EXCEPT ![ix].checked = TRUE]

\* complete_checklist_item, lines 156-170
complete_checklist_item_on(card, checklist_item_name, dup) ==
    LET k == find_default_checklist(card) IN
    IF k = 0
    THEN [card |-> card, result |-> "ChecklistNotFoundError"]
    ELSE [card |-> [card EXCEPT !.checklists[k].items =
                       set_checklist_item(@, checklist_item_name, dup)],
          result |-> "ok"]

\* the items of every checklist named DEFAULT_CHECKLIST_NAME, in the order
\* the two loops of _find_next_unchecked_item visit them
RECURSIVE DefaultItems(_)
DefaultItems(checklists) ==
    IF checklists = <<>> THEN <<>>
    ELSE (IF Head(checklists).name = DEFAULT_CHECKLIST_NAME
          THEN Head(checklists).items ELSE <<>>)
         \o DefaultItems(Tail(checklists))

\* a variant that returns the last unchecked item instead of the first
find_next_unchecked_item_last(card) ==
    LET items == DefaultItems(card.checklists)
        unchecked == {i \in DOMAIN items : ~items[i].checked}
    IN IF unchecked # {}
       THEN [result |-> "ok",
             value |-> items[CHOOSE i \in unchecked : \A j \in unchecked : j <= i]]
       ELSE [result |-> "ChecklistNotFoundError", value |-> None]

\* _find_next_unchecked_item(card, title)
find_next_unchecked_item(card) ==
    LET items == DefaultItems(card.checklists)
        ix == FirstIndex(items, LAMBDA item : ~item.checked)
    IN IF ix # 0
       THEN [result |-> "ok", value |-> items[ix]]
       ELSE [result |-> "ChecklistNotFoundError", value |-> None]

\* get_next_unchecked_checklist_item(project_name, title)
get_next_unchecked_checklist_item_result(board, project_name, title) ==
    LET at == find_card_or_raise(board, project_name, title) IN
    IF at = <<0, 0>>
    THEN [result |-> "TaskNotFoundError", value |-> None]
    ELSE find_next_unchecked_item(CardAt(board, at))

update_task_with_checklist(project_name, title, checklist_items) ==
    LET at == find_card_or_raise(lists, project_name, title) IN
    /\ at # <<0, 0>> =>
          Len(DefaultItems(CardAt(lists, at).checklists)) + Len(checklist_items) <= MaxItems
    /\ OnCard("update_task_with_checklist", project_name, title, checklist_items,
              LAMBDA card : update_task_with_checklist_on(card, checklist_items))

complete_checklist_item(project_name, title, checklist_item_name) ==
    \E dup \in DuplicateNameOutcomes :
        OnCard("complete_checklist_item", project_name, title, checklist_item_name,
               LAMBDA card : complete_checklist_item_on(card, checklist_item_name, dup))

get_next_unchecked_checklist_item(project_name, title) ==
    /\ LET r == get_next_unchecked_checklist_item_result(lists, project_name, title)
       IN last' = Called("get_next_unchecked_checklist_item", project_name, title, None,
                         r.result, r.value)
    /\ UNCHANGED <<trello, jira, manager, factory, threads>>

---------------------------------------------------------------------------
(* JiraTaskService *)

\* Projects of the tracker and the names callers give them
JiraProjectKeys == {"P", "Q"}
JiraProjectInputs == {"P", "q"}
\* Titles are sequences of words: `summary ~ "title"` is a text search
JiraTitles == {<<"T">>, <<"T", "U">>}
JiraTexts == {<<"d">>, <<"x">>}

\* Workflow states of the tracker; a new issue starts in one of InitialStatuses
JiraStatuses == {"To Do", "In Progress", "Done", "Backlog"}
InitialStatuses == {"To Do", "Backlog"}

\* _get_project_key: project_name.upper()
get_project_key(project_name) ==
    CASE project_name = "p" -> "P"
      [] project_name = "q" -> "Q"
      [] OTHER -> project_name

\* str.lower() on the workflow state names
Lower(name) ==
    CASE name = "To Do" -> "to do"
      [] name = "In Progress" -> "in progress"
      [] name = "Done" -> "done"
      [] name = "Backlog" -> "backlog"
      [] OTHER -> name

\* _map_jira_status_to_internal
map_jira_status_to_internal(jira_status) ==
    LET key == Lower(jira_status) IN
    CASE key = "to do" -> "todo"
      [] key = "in progress" -> "wip"
      [] key = "done" -> "done"
      [] OTHER -> "todo"

\* the description document the service sends: one paragraph with one text node
AdfDoc(description) == << <<description>> >>

Range(seq) == {seq[i] : i \in DOMAIN seq}

RECURSIVE JoinTexts(_)
JoinTexts(parts) ==
    IF parts = <<>> THEN <<>>
    ELSE IF Len(parts) = 1 THEN parts[1]
    ELSE parts[1] \o <<" ">> \o JoinTexts(Tail(parts))

RECURSIVE Flatten(_)
Flatten(seqs) == IF seqs = <<>> THEN <<>> ELSE Head(seqs) \o Flatten(Tail(seqs))

\* _extract_description_text: the text nodes of every paragraph, joined by " "
extract_description_text(description_obj) ==
    JoinTexts(Flatten(description_obj))

\* project = "<key>" AND summary ~ "<title>": the issues of the project whose
\* summary holds every word of the title
search_by_title(project_key, title) ==
    {i \in DOMAIN issues :
        /\ issues[i].project = project_key
        /\ Range(title) \subseteq Range(issues[i].summary)}

\* the set_task_status map from the internal status to the workflow state
jira_status_map(status) ==
    CASE status = "todo" -> "To Do"
      [] status = "wip" -> "In Progress"
      [] status = "done" -> "Done"

\* the names the calls of JiraTaskService are recorded under
jira_name(op) ==
    CASE op = "add_task" -> "jira.add_task"
      [] op = "get_next_task" -> "jira.get_next_task"
      [] op = "mark_as_in_progress" -> "jira.mark_as_in_progress"
      [] op = "mark_as_completed" -> "jira.mark_as_completed"
      [] op = "update_task_description" -> "jira.update_task_description"
      [] op = "update_task_with_checklist" -> "jira.update_task_with_checklist"
      [] op = "complete_checklist_item" -> "jira.complete_checklist_item"
      [] op = "get_next_unchecked_checklist_item" ->
            "jira.get_next_unchecked_checklist_item"
      [] op = "get_tasks" -> "jira.get_tasks"
      [] op = "get_task_status" -> "jira.get_task_status"
      [] op = "set_task_status" -> "jira.set_task_status"
      [] op = "delete_all_tasks" -> "jira.delete_all_tasks"

JiraCalled(op, project_name, title, arg, result, value) ==
    LET record == Record(op, project_name, title, arg, result, value, NoPre, TRUE)
        e == Exception(result, <<>>)
        operation == CHOOSE o \in Operations : jira_name(o) = op
    IN IF result = "ok" THEN record ELSE Outcome(record, e, jira_except(operation, e))

\* add_task: POST /issue
jira_add_task(project_name, title, description) ==
    /\ nextKey <= MaxIssues
    /\ \E status \in InitialStatuses :
          issues' = Append(issues,
              [key |-> nextKey, project |-> get_project_key(project_name),
               summary |-> title, description |-> AdfDoc(description),
               status |-> status, parent |-> 0])
    /\ nextKey' = nextKey + 1
    /\ last' = JiraCalled("jira.add_task", project_name, title, description, "ok", nextKey)
    /\ UNCHANGED <<trello, manager, factory, threads>>

\* the issues that project = "<key>" AND status = "To Do" selects
search_to_do(project_key) ==
    {i \in DOMAIN issues :
        issues[i].project = project_key /\ issues[i].status = "To Do"}

\* get_next_task: of the issues selected, the one ORDER BY priority DESC,
\* created ASC puts first; the priority of an issue is set in the tracker
jira_get_next_task(project_name) ==
    LET found == search_to_do(get_project_key(project_name)) IN
    /\ IF found = {}
       THEN last' = JiraCalled("jira.get_next_task", project_name, None, None,
                               "NoAvailableTasksError", None)
       ELSE \E i \in found :
               last' = JiraCalled("jira.get_next_task", project_name, None, None,
                                  "ok", issues[i].key)
    /\ UNCHANGED <<trello, jira, manager, factory, threads>>

\* a title-based operation: the search returns at most one of the matching
\* issues (no ORDER BY: whichever the tracker lists first)
JiraOnIssue(op, project_name, title, arg, Act(_)) ==
    LET found == search_by_title(get_project_key(project_name), title) IN
    /\ IF found = {}
       THEN /\ issues' = issues
            /\ last' = JiraCalled(op, project_name, title, arg, "TaskNotFoundError", None)
       ELSE \E i \in found :
               LET r == Act(issues[i]) IN
               /\ issues' = [issues EXCEPT ![i] = r.issue]
               /\ last' = JiraCalled(op, project_name, title, arg, r.result, r.value)
    /\ UNCHANGED <<nextKey, trello, manager, factory, threads>>

\* update_task_description, lines 256-266: PUT /issue/<key> with the new document
jira_update_task_description_on(issue, description) ==
    [issue |-> [issue EXCEPT !.description = AdfDoc(description)],
     result |-> "ok", value |-> issue.key]

jira_update_task_description(project_name, title, description) ==
    JiraOnIssue("jira.update_task_description", project_name, title, description,
                LAMBDA issue : jira_update_task_description_on(issue, description))

\* get_task_status
jira_get_task_status(project_name, title) ==
    JiraOnIssue("jira.get_task_status", project_name, title, None,
                LAMBDA issue : [issue |-> issue, result |-> "ok",
                                value |-> map_jira_status_to_internal(issue.status)])

\* set_task_status, lines 468-471: _find_transition_id then _transition_issue;
\* the workflow offers a transition to the target state or it does not
jira_set_task_status_on(issue, status, offered) ==
    LET target_status == jira_status_map(status) IN
    IF offered
    THEN [issue |-> [issue EXCEPT !.status = target_status],
          result |-> "ok", value |-> issue.key]
    ELSE [issue |-> issue, result |-> "TaskServiceConnectionError", value |-> None]

jira_set_task_status(project_name, title, status) ==
    IF status \notin ValidStatuses
    THEN /\ last' = CalledLocal("jira.set_task_status", project_name, title, status,
                                "InvalidTaskStatusError")
         /\ UNCHANGED <<trello, jira, manager, factory, threads>>
    ELSE \E offered \in BOOLEAN :
            JiraOnIssue("jira.set_task_status", project_name, title, status,
                        LAMBDA issue : jira_set_task_status_on(issue, status, offered))

\* get_tasks: the issues the JQL of the filter selects, as task dicts
jira_get_tasks_result(project_name, filter_type) ==
    LET project_key == get_project_key(project_name)
        Selected(issue) ==
            /\ issue.project = project_key
            /\ CASE filter_type = "wip" -> issue.status = "In Progress"
                 [] filter_type = "done" -> issue.status = "Done"
                 [] OTHER -> TRUE
        tasks == [i \in DOMAIN issues |->
                    [title |-> issues[i].summary,
                     description |-> extract_description_text(issues[i].description),
                     status |-> map_jira_status_to_internal(issues[i].status),
                     id |-> issues[i].key,
                     selected |-> Selected(issues[i])]]
        dict(task) == [title |-> task.title, description |-> task.description,
                       status |-> task.status, id |-> task.id]
        chosen == SelectSeq(tasks, LAMBDA task : task.selected)
    IN [i \in DOMAIN chosen |-> dict(chosen[i])]

jira_get_tasks(project_name, filter_type) ==
    /\ last' = JiraCalled("jira.get_tasks", project_name, None, filter_type, "ok",
                          jira_get_tasks_result(project_name, filter_type))
    /\ UNCHANGED <<trello, jira, manager, factory, threads>>

---------------------------------------------------------------------------
(* Remote calls that fail *)

Min2(a, b) == IF a <= b THEN a ELSE b

\* a variant in which the card whose deletion failed is deleted as well
DeleteFirst_and_failed(board, li, j) ==
    [board EXCEPT ![li].cards = SubSeq(@, Min2(j + 1, Len(@)) + 1, Len(@))]

\* the board with the first j cards of list li deleted
DeleteFirst(board, li, j) ==
    [board EXCEPT ![li].cards = SubSeq(@, j + 1, Len(@))]

\* the boards a TrelloTaskService operation can leave behind when one of
\* its remote calls raises: the writes made before that call are kept
trello_partial(op, project_name, title, arg) ==
    LET li == find_existing_list(lists, project_name)
        at == find_card_or_raise(lists, project_name, title)
    IN CASE op = "add_task" ->
              {lists, find_or_create_list(lists, project_name).board}
         [] op = "mark_as_completed" /\ at # <<0, 0>> ->
              {lists, PutCard(lists, at, remove_label(CardAt(lists, at), WIP_LABEL_NAME))}
         [] op = "set_task_status" /\ at # <<0, 0>> ->
              LET c1 == remove_label(CardAt(lists, at), WIP_LABEL_NAME) IN
              {lists, PutCard(lists, at, c1), PutCard(lists, at, clear_due_complete(c1))}
         [] op = "update_task_with_checklist" /\ at # <<0, 0>> ->
              {lists} \cup
              {PutCard(lists, at,
                       update_task_with_checklist_on(CardAt(lists, at),
                                                     SubSeq(arg, 1, j)).card) :
                 j \in {k \in 0..(Len(arg) - 1) :
                          Len(DefaultItems(CardAt(lists, at).checklists)) + k <= MaxItems}}
         [] op = "delete_all_tasks" /\ li # 0 ->
              {DeleteFirst(lists, li, j) : j \in 0..(Len(lists[li].cards) - 1)}
         [] OTHER -> {lists}

\* the arguments the operations are called with when a remote call fails
FailureArgs(op) ==
    CASE op = "add_task" -> {<<"d">>}
      [] op = "update_task_description" -> {<<"x">>}
      [] op = "update_task_with_checklist" -> {<<"a", "b">>}
      [] op = "complete_checklist_item" -> {"a"}
      [] op = "get_tasks" -> {"all"}
      [] op = "set_task_status" -> {"done"}
      [] OTHER -> {None}

NoTitle(op) == op \in {"get_next_task", "get_tasks", "delete_all_tasks"}

\* a TrelloTaskService operation in which a remote call raises; the record
\* of the call keeps, as its value, how many cards the call had deleted
trello_remote_failure(op, project_name, title, arg, kind) ==
    LET e == Exception(kind, OriginalMessage) IN
    /\ \E board \in trello_partial(op, project_name, title, arg) :
          LET deleted == {id \in DOMAIN descLog :
                             HasCardId(lists, id) /\ ~HasCardId(board, id)}
              record == Record(op, project_name, title, arg, kind, Cardinality(deleted),
                               PreOf(lists, project_name, title), TRUE)
          IN /\ lists' = board
             /\ descLog' = [id \in DOMAIN descLog |->
                              IF id \in deleted THEN <<>> ELSE descLog[id]]
             /\ last' = Outcome(record, e, trello_except(op, e))
    /\ UNCHANGED <<nextId, jira, manager, factory, threads>>

\* the issues a JiraTaskService operation can leave behind when one of its
\* requests raises
jira_partial(op, project_name, title, arg) ==
    LET project_key == get_project_key(project_name)
        found == {i \in DOMAIN issues : issues[i].project = project_key}
    IN CASE op = "delete_all_tasks" ->
              {SelectSeq(issues, LAMBDA issue :
                    ~(issue.project = project_key /\ issue.key < k)) :
                 k \in {issues[i].key : i \in found}}
              \cup {issues}
         [] OTHER -> {issues}

\* a JiraTaskService operation in which a request raises
jira_remote_failure(op, project_name, title, arg, kind) ==
    LET e == make_request_except(Exception(kind, OriginalMessage))
        record == Record(jira_name(op), project_name, title, arg, kind, None, NoPre, TRUE)
    IN /\ \E tracker \in jira_partial(op, project_name, title, arg) : issues' = tracker
       /\ last' = [Outcome(record, e, jira_except(op, e)) EXCEPT !.cause = kind]
       /\ UNCHANGED <<nextKey, trello, manager, factory, threads>>

---------------------------------------------------------------------------
(* The domain model of task_service.py: Checklist over its items *)

\* ChecklistItem(name=item_name)
ChecklistItem(name) == [name |-> name, checked |-> FALSE]

\* Checklist.add_item
Checklist_add_item(items, item_name) == Append(items, ChecklistItem(item_name))

\* Checklist.complete_item: the items after the call and the value returned
Checklist_complete_item(items, item_name) ==
    LET ix == FirstIndex(items, LAMBDA item : item.name = item_name) IN
    IF ix # 0
    THEN [items |-> [items EXCEPT ![ix].checked = TRUE], value |-> TRUE]
    ELSE [items |-> items, value |-> FALSE]

\* Checklist.get_next_unchecked_item: the index of the item returned, 0 for None
Checklist_get_next_unchecked_item(items) ==
    FirstIndex(items, LAMBDA item : ~item.checked)

\* Checklist.is_complete
Checklist_is_complete(items) == \A i \in DOMAIN items : items[i].checked

---------------------------------------------------------------------------
(* TrelloTaskManager: the class the tools of main_cli.py are bound to *)

\* self.selected_board_list.list_cards(), then the card named title:
\* <<0, 0>> when selected_board_list is None, <<li, 0>> when no card matches
manager_find_card(board, title) ==
    LET li == find_existing_list(board, selected_board_list) IN
    IF li = 0 THEN <<0, 0>> ELSE <<li, find_card(board[li].cards, title)>>

\* handle_task_operation: the message of the operation, or the error text
ToolCalled(op, project_name, title, arg, result, value) ==
    Record(op, project_name, title, arg, result, value, NoPre,
           selected_board_list # None)

\* TrelloTaskManager.add_task
manager_add_task(project_name, title, description) ==
    /\ nextId <= MaxCards
    /\ LET r == find_or_create_list(lists, project_name)
           card == NewCard(nextId, title, description)
       IN lists' = [r.board EXCEPT ![r.li].cards = Append(@, card)]
    /\ selected_board_list' = project_name
    /\ nextId' = nextId + 1
    /\ descLog' = Append(descLog, <<description>>)
    /\ last' = Record("manager_add_task", project_name, title, description,
                      "ok", nextId, NoPre, TRUE)
    /\ UNCHANGED <<jira, factory, threads>>

\* a title-based operation of the manager that acts on the card by Act(card)
ManagerOnCard(op, project_name, title, arg, Act(_)) ==
    LET at == manager_find_card(lists, title) IN
    /\ IF at[1] = 0
       THEN /\ last' = ToolCalled(op, project_name, title, arg, "AttributeError", None)
            /\ lists' = lists
       ELSE IF at[2] = 0
       THEN /\ last' = ToolCalled(op, project_name, title, arg, "TaskNotFoundError", None)
            /\ lists' = lists
       ELSE LET r == Act(CardAt(lists, at)) IN
            /\ lists' = PutCard(lists, at, r.card)
            /\ last' = ToolCalled(op, project_name, title, arg, r.result, r.value)
    /\ UNCHANGED <<nextId, descLog, jira, manager, factory, threads>>

\* TrelloTaskManager.update_task_with_checklist, line 126
manager_update_task_with_checklist_on(card, checklist_items) ==
    [card |-> add_checklist(card, DEFAULT_CHECKLIST_NAME, checklist_items),
     result |-> "ok", value |-> card.id]

\* TrelloTaskManager.complete_checklist_item, lines 135-144
manager_complete_checklist_item_on(card, checklist_item_name, dup) ==
    LET k == find_default_checklist(card) IN
    IF k = 0
    THEN [card |-> card, result |-> "ChecklistNotFoundError", value |-> None]
    ELSE [card |-> [card EXCEPT !.checklists[k].items =
                       set_checklist_item(@, checklist_item_name, dup)],
          result |-> "ok", value |-> card.id]

\* TrelloTaskManager.get_next_unchecked_checklist_item, lines 151-164
manager_find_next_unchecked_item(card) ==
    LET k == find_default_checklist(card) IN
    IF k = 0
    THEN [card |-> card, result |-> "ChecklistNotFoundError", value |-> None]
    ELSE LET items == card.checklists[k].items
             ix == FirstIndex(items, LAMBDA item : ~item.checked)
         IN IF ix # 0
            THEN [card |-> card, result |-> "ok", value |-> items[ix]]
            ELSE [card |-> card, result |-> "ChecklistItemNotFoundError", value |-> None]

manager_update_task_with_checklist(project_name, title, checklist_items) ==
    LET at == manager_find_card(lists, title) IN
    /\ (at[1] # 0 /\ at[2] # 0) =>
          /\ Len(CardAt(lists, at).checklists) < MaxChecklists
          /\ Len(DefaultItems(CardAt(lists, at).checklists)) + Len(checklist_items)
                <= MaxItems
    /\ ManagerOnCard("manager_update_task_with_checklist", project_name, title,
                     checklist_items,
                     LAMBDA card : manager_update_task_with_checklist_on(card, checklist_items))

manager_complete_checklist_item(project_name, title, checklist_item_name) ==
    \E dup \in DuplicateNameOutcomes :
        ManagerOnCard("manager_complete_checklist_item", project_name, title,
                      checklist_item_name,
                      LAMBDA card : manager_complete_checklist_item_on(card, checklist_item_name, dup))

manager_get_next_unchecked_checklist_item(project_name, title) ==
    ManagerOnCard("manager_get_next_unchecked_checklist_item", project_name, title, None,
                  LAMBDA card : manager_find_next_unchecked_item(card))

\* TrelloTaskManager.get_tasks: the cards of the cached list, whatever
\* project_name is; with no cached list, None.list_cards() raises
manager_get_tasks(project_name, filter_type) ==
    /\ IF selected_board_list = None
       THEN last' = ToolCalled("manager_get_tasks", project_name, None, filter_type,
                               "AttributeError", None)
       ELSE last' = ToolCalled("manager_get_tasks", project_name, None, filter_type, "ok",
                               get_tasks_result(lists, selected_board_list, filter_type).value)
    /\ UNCHANGED <<trello, jira, manager, factory, threads>>

\* TrelloTaskManager.get_next_task
manager_get_next_task(project_name) ==
    /\ IF selected_board_list = None
       THEN last' = ToolCalled("manager_get_next_task", project_name, None, None,
                               "AttributeError", None)
       ELSE LET li == find_existing_list(lists, selected_board_list)
                i == find_next_available_card(lists[li].cards, LabelsGet(WIP_LABEL_NAME))
            IN last' = ToolCalled("manager_get_next_task", project_name, None, None, "ok",
                                  IF i = 0 THEN None ELSE lists[li].cards[i].id)
    /\ UNCHANGED <<trello, jira, manager, factory, threads>>

\* TrelloTaskManager.delete_all_tasks
manager_delete_all_tasks(project_name) ==
    /\ IF selected_board_list = None
       THEN /\ lists' = lists
            /\ descLog' = descLog
            /\ last' = ToolCalled("manager_delete_all_tasks", project_name, None, None,
                                  "AttributeError", None)
       ELSE LET li == find_existing_list(lists, selected_board_list) IN
            /\ lists' = [lists EXCEPT ![li].cards = <<>>]
            /\ descLog' = [id \in DOMAIN descLog |->
                             IF \E i \in DOMAIN lists[li].cards : lists[li].cards[i].id = id
                             THEN <<>> ELSE descLog[id]]
            /\ last' = ToolCalled("manager_delete_all_tasks", project_name, None, None,
                                  "ok", "deleted")
    /\ UNCHANGED <<nextId, jira, manager, factory, threads>>

---------------------------------------------------------------------------
(* TaskServiceFactory: task_service_factory.py *)

\* the class variables the factory calls read and write
FactoryState ==
    [configs |-> configs, service_registry |-> service_registry, initialized |-> initialized]

\* one step of a factory call: what was called, on what, and how it ended
Step(step, about, outcome) == [step |-> step, about |-> about, outcome |-> outcome]

\* what a factory call gives: the class variables after it, the exception it
\* raised (or Returned), the class of the adapter it returned, and its steps
FactoryResult(st, raised, value, steps) ==
    [state |-> st, raised |-> raised, value |-> value, trace |-> steps]

MissingServiceConfigError(service_type, missing_keys, cause) ==
    Raised("MissingServiceConfigError",
           IF missing_keys # <<>>
           THEN <<"Missing required configuration for ", service_type, ": ">> \o missing_keys
           ELSE <<"Missing configuration for ", service_type>>,
           missing_keys, cause)

ConfigurationValidationError(message, cause) ==
    Raised("ConfigurationValidationError", message, <<>>, cause)

TaskServiceAuthenticationError(backend_name, cause) ==
    Raised("TaskServiceAuthenticationError",
           <<"Authentication failed with ", backend_name,
             " backend. Please check your credentials.">>, <<>>, cause)

\* TrelloTaskService.__init__: reads the environment itself, then connects
TrelloTaskService_init(env, up) ==
    IF \/ env.TRELLO_API_KEY = <<>>
       \/ env.TRELLO_API_TOKEN = <<>>
       \/ env.TRELLO_BOARD_NAME = <<>>
    THEN TaskServiceAuthenticationError("Trello", None)
    ELSE IF "trello" \notin up
    THEN Raised("TaskServiceConnectionError", <<"Connection to ", "Trello", " failed">>,
                <<>>, "Exception")
    ELSE Returned

\* JiraTaskService.__init__
JiraTaskService_init(env, up) ==
    IF \/ env.JIRA_SERVER_URL = <<>>
       \/ env.JIRA_USERNAME = <<>>
       \/ env.JIRA_API_TOKEN = <<>>
    THEN TaskServiceAuthenticationError("JIRA", None)
    ELSE IF "jira" \notin up
    THEN Raised("TaskServiceConnectionError", <<"Connection to ", "JIRA", " failed">>,
                <<>>, "Exception")
    ELSE Returned

\* The values given to register_service as service_class:
\*   TrelloTaskService, JiraTaskService: the two adapters
\*   CustomService: a subclass of TaskService implementing every abstract
\*                  method, whose constructor takes no argument and returns
\*   PartialService: a subclass of TaskService that leaves add_task abstract
\*   TaskService: the abstract base class itself
\*   dict: a class that is not a subclass of TaskService
\*   instance: an object that is not a class
ServiceClasses ==
    {"TrelloTaskService", "JiraTaskService", "CustomService", "PartialService",
     "TaskService", "dict", "instance"}

\* the abstract methods of TaskService
ContractMethods ==
    {"add_task", "get_next_task", "mark_as_in_progress", "mark_as_completed",
     "update_task_description", "update_task_with_checklist", "complete_checklist_item",
     "get_next_unchecked_checklist_item", "get_tasks", "get_task_status",
     "set_task_status", "delete_all_tasks"}

\* inspect.isclass(service_class)
isclass(service_class) == service_class # "instance"

\* issubclass(service_class, TaskService)
issubclass_TaskService(service_class) ==
    service_class \in {"TrelloTaskService", "JiraTaskService", "CustomService",
                       "PartialService", "TaskService"}

\* service_class.__abstractmethods__
abstractmethods(service_class) ==
    IF service_class = "TaskService" THEN ContractMethods
    ELSE IF service_class = "PartialService" THEN {"add_task"}
    ELSE {}

\* service_class()
construct(service_class, env, up) ==
    IF service_class = "TrelloTaskService" THEN TrelloTaskService_init(env, up)
    ELSE IF service_class = "JiraTaskService" THEN JiraTaskService_init(env, up)
    ELSE Returned

\* TaskServiceFactory._initialize_default_services
initialize_default_services(st) ==
    IF ~st.initialized
    THEN [st EXCEPT !.service_registry = DefaultRegistry, !.initialized = TRUE]
    ELSE st

\* TaskServiceFactory._validate_configuration
validate_configuration(config) ==
    LET e == validate(config) IN
    IF e.type = "ok" THEN Returned
    ELSE IF e.type = "MissingConfigurationError"
    THEN MissingServiceConfigError(config.service_name, e.missing_keys, e.type)
    ELSE ConfigurationValidationError(
             <<"Invalid configuration for ", config.service_name, ": ">> \o e.message, e.type)

\* a variant that neither loads nor validates a configuration
load_configuration_skipped(st, env, service_type_enum, config) ==
    [configs |-> st.configs, raised |-> Returned, steps |-> <<>>]

\* create_service: "Load and validate configuration"
load_configuration(st, env, service_type_enum, config) ==
    IF config = NoConfig
    THEN LET loaded == load_from_env_result(st.configs, env, service_type_enum)
             e == loaded.raised
         IN [configs |-> loaded.configs,
             raised |-> IF e.type = "ok" THEN Returned
                        ELSE IF e.type = "MissingConfigurationError"
                        THEN MissingServiceConfigError(service_type_enum, e.missing_keys, e.type)
                        ELSE ConfigurationValidationError(
                                 <<"Failed to load configuration for ", service_type_enum, ": ">>
                                     \o e.message, e.type),
             steps |-> <<Step("load_from_env", service_type_enum, e.type)>>]
    ELSE LET checked == validate_configuration(config)
             registered == register_config_result(st.configs, config)
         IN IF checked.type # "ok"
            THEN [configs |-> st.configs, raised |-> checked,
                  steps |-> <<Step("validate", config.service_name, checked.type)>>]
            ELSE [configs |-> registered.configs, raised |-> registered.raised,
                  steps |-> <<Step("validate", config.service_name, "ok"),
                              Step("register_config", config.service_name,
                                   registered.raised.type)>>]

\* TaskServiceFactory.create_service
create_service_result(st, env, up, service_type, config) ==
    LET s0 == initialize_default_services(st)
        parsed == from_string(service_type)
        service_type_enum == parsed.value
    IN IF parsed.raised.type # "ok"
       THEN FactoryResult(s0, UnknownServiceTypeError(<<service_type>>, "ValueError"), None,
                          <<Step("from_string", service_type, "ValueError")>>)
       ELSE IF s0.service_registry[service_type_enum] = None
       THEN FactoryResult(s0, UnknownServiceTypeError(<<service_type_enum>>, None), None,
                          <<Step("from_string", service_type, "ok"),
                            Step("registry", service_type_enum, "KeyError")>>)
       ELSE LET loaded == load_configuration(s0, env, service_type_enum, config)
                s1 == [s0 EXCEPT !.configs = loaded.configs]
                steps == <<Step("from_string", service_type, "ok"),
                           Step("registry", service_type_enum, "ok")>> \o loaded.steps
                service_class == s0.service_registry[service_type_enum]
                e == construct(service_class, env, up)
            IN IF loaded.raised.type # "ok"
               THEN FactoryResult(s1, loaded.raised, None, steps)
               ELSE IF e.type # "ok"
               THEN FactoryResult(s1, TaskServiceAuthenticationError(service_type_enum, e.type),
                                  None,
                                  Append(steps, Step("constructor", service_class, e.type)))
               ELSE FactoryResult(s1, Returned, service_class,
                                  Append(steps, Step("constructor", service_class, "ok")))

\* the exceptions the except clauses of create_default_service and of
\* create_service_with_fallback name
FallbackErrors == {"TaskServiceAuthenticationError", "UnknownServiceTypeError"}

\* the element of a one-element set: in {F(x) : x \in {e}} the value of e
\* is computed once, however often F uses it
TheOne(S) == CHOOSE x \in S : TRUE

\* create_default_service, after the loop: first and second are what
\* create_service gave for TRELLO and for JIRA
after_loop(first, second, steps) ==
    LET last_exception == second.raised IN
    IF first.raised.type = "ok"
    THEN FactoryResult(first.state, Returned, first.value, steps \o first.trace)
    ELSE IF second.raised.type = "ok"
    THEN FactoryResult(second.state, Returned, second.value,
                       steps \o first.trace \o second.trace)
    ELSE FactoryResult(second.state,
                       UnknownServiceTypeError(
                           <<"No valid service configuration found. Last error: ">>
                               \o last_exception.message, last_exception.type),
                       None, steps \o first.trace \o second.trace)

\* create_default_service: "Try to load services in order of preference"
try_in_order(st, env, up, steps) ==
    TheOne({TheOne({after_loop(first, second, steps) :
                       second \in {create_service_result(first.state, env, up, "jira", NoConfig)}}) :
               first \in {create_service_result(st, env, up, "trello", NoConfig)}})

\* create_default_service, after create_service(active_service) gave active
after_active(active, env, up, steps) ==
    IF active.raised.type = "ok"
    THEN FactoryResult(active.state, Returned, active.value, steps \o active.trace)
    ELSE IF active.raised.type \in FallbackErrors
    THEN try_in_order(active.state, env, up, steps \o active.trace)
    ELSE FactoryResult(active.state, active.raised, None, steps \o active.trace)

\* TaskServiceFactory.create_default_service
create_default_service_result(st, env, up) ==
    LET s0 == initialize_default_services(st)
        active_service == get_active_service(s0.configs, env)
        steps == <<Step("get_active_service", active_service, "ok")>>
    IN IF active_service = None THEN try_in_order(s0, env, up, steps)
       ELSE TheOne({after_active(active, env, up, steps) :
                       active \in {create_service_result(s0, env, up, active_service, NoConfig)}})

\* create_service_with_fallback: the preferred service and then each
\* fallback service is given to create_service, under the same except clause
RECURSIVE try_services(_, _, _, _, _, _)
try_services(st, env, up, services, tried, steps) ==
    IF services = <<>>
    THEN FactoryResult(st,
                       UnknownServiceTypeError(<<"Could not create service. Tried: ">> \o tried,
                                               None),
                       None, steps)
    ELSE TheOne({IF created.raised.type = "ok"
                 THEN FactoryResult(created.state, Returned, created.value,
                                    steps \o created.trace)
                 ELSE IF created.raised.type \in FallbackErrors
                 THEN try_services(created.state, env, up, Tail(services), tried,
                                   steps \o created.trace)
                 ELSE FactoryResult(created.state, created.raised, None,
                                    steps \o created.trace) :
                    created \in {create_service_result(st, env, up, Head(services), NoConfig)}})

\* fallback_services when the caller gives none
DefaultFallbacks == <<"trello", "jira">>

\* TaskServiceFactory.create_service_with_fallback
create_service_with_fallback_result(st, env, up, preferred_service, fallback_services) ==
    try_services(initialize_default_services(st), env, up,
                 <<preferred_service>> \o fallback_services,
                 <<preferred_service>> \o fallback_services, <<>>)

\* the record of a factory or configuration call
FactoryRecord(op, arg, result) ==
    [op |-> op, project |-> None, title |-> None, arg |-> arg,
     result |-> result.raised.type, value |-> result.value, pre |-> NoPre,
     again |-> FALSE, remote |-> FALSE, cause |-> result.raised.cause,
     details |-> result.raised.message]

\* a factory call takes effect on the class variables
FactoryCalled(op, arg, result) ==
    /\ configs' = result.state.configs
    /\ service_registry' = result.state.service_registry
    /\ initialized' = result.state.initialized
    /\ trace' = result.trace
    /\ last' = FactoryRecord(op, arg, result)
    /\ UNCHANGED <<trello, jira, manager, environ, reachable, threads>>

create_service(service_type, config) ==
    FactoryCalled("create_service", <<service_type, config>>,
                  create_service_result(FactoryState, environ, reachable, service_type, config))

create_default_service ==
    FactoryCalled("create_default_service", <<>>,
                  create_default_service_result(FactoryState, environ, reachable))

create_service_with_fallback(preferred_service, fallback_services) ==
    FactoryCalled("create_service_with_fallback", <<preferred_service, fallback_services>>,
                  create_service_with_fallback_result(FactoryState, environ, reachable,
                                                      preferred_service, fallback_services))

\* ConfigurationManager.load_from_env, called directly
load_from_env(service_type) ==
    LET loaded == load_from_env_result(configs, environ, service_type) IN
    FactoryCalled("load_from_env", <<service_type>>,
                  FactoryResult([FactoryState EXCEPT !.configs = loaded.configs],
                                loaded.raised, None,
                                <<Step("load_from_env", service_type, loaded.raised.type)>>))

\* ConfigurationManager.register_config, called directly
register_config(config) ==
    LET registered == register_config_result(configs, config) IN
    FactoryCalled("register_config", <<config>>,
                  FactoryResult([FactoryState EXCEPT !.configs = registered.configs],
                                registered.raised, None,
                                <<Step("register_config", config.service_name,
                                       registered.raised.type)>>))

\* ConfigurationManager.clear_configs
clear_configs ==
    FactoryCalled("clear_configs", <<>>,
                  FactoryResult([FactoryState EXCEPT !.configs = <<>>], Returned, None, <<>>))

ServiceRegistrationError(message, cause) ==
    Raised("ServiceRegistrationError", message, <<>>, cause)

\* a variant that does not look at the abstract methods
validate_service_class_any_subclass(service_class) ==
    IF ~isclass(service_class)
    THEN ServiceRegistrationError(<<"Service must be a class">>, None)
    ELSE IF ~issubclass_TaskService(service_class)
    THEN ServiceRegistrationError(<<"Service class must inherit from TaskService">>, None)
    ELSE Returned

\* TaskServiceFactory._validate_service_class
validate_service_class(service_class) ==
    IF ~isclass(service_class)
    THEN ServiceRegistrationError(<<"Service must be a class">>, None)
    ELSE IF ~issubclass_TaskService(service_class)
    THEN ServiceRegistrationError(<<"Service class must inherit from TaskService">>, None)
    ELSE IF abstractmethods(service_class) # {}
    THEN ServiceRegistrationError(<<"Service class must implement all abstract methods">>,
                                  None)
    ELSE Returned

\* TaskServiceFactory.register_service: the lazy initialization is not run
register_service_result(st, service_type, service_class) ==
    LET e == validate_service_class(service_class) IN
    IF e.type # "ok"
    THEN FactoryResult(st, e, None, <<Step("validate_service_class", service_class, e.type)>>)
    ELSE FactoryResult([st EXCEPT !.service_registry[service_type] = service_class],
                       Returned, None,
                       <<Step("validate_service_class", service_class, "ok")>>)

register_service(service_type, service_class) ==
    FactoryCalled("register_service", <<service_type, service_class>>,
                  register_service_result(FactoryState, service_type, service_class))

\* TaskServiceFactory.register_service_by_name
register_service_by_name(service_name, service_class) ==
    LET parsed == from_string(service_name) IN
    FactoryCalled("register_service_by_name", <<service_name, service_class>>,
                  IF parsed.raised.type # "ok"
                  THEN FactoryResult(FactoryState,
                                     ServiceRegistrationError(
                                         <<"Invalid service name '", service_name, "': ">>
                                             \o parsed.raised.message, "ValueError"),
                                     None, <<Step("from_string", service_name, "ValueError")>>)
                  ELSE register_service_result(FactoryState, parsed.value, service_class))

\* TaskServiceFactory.get_registered_services
get_registered_services ==
    LET s0 == initialize_default_services(FactoryState) IN
    FactoryCalled("get_registered_services", <<>>,
                  FactoryResult(s0, Returned, s0.service_registry, <<>>))

\* TaskServiceFactory.unregister_service
unregister_service(service_type) ==
    FactoryCalled("unregister_service", <<service_type>>,
                  FactoryResult([FactoryState EXCEPT !.service_registry[service_type] = None],
                                Returned, service_registry[service_type] # None, <<>>))

\* TaskServiceFactory.clear_registry
clear_registry ==
    FactoryCalled("clear_registry", <<>>,
                  FactoryResult([FactoryState EXCEPT
                                    !.service_registry = [t \in ServiceType |-> None],
                                    !.initialized = FALSE],
                                Returned, None, <<>>))

\* the environment changes: os.environ[name] = value
setenv(name, value) ==
    /\ environ[name] # value
    /\ environ' = [environ EXCEPT ![name] = value]
    /\ trace' = <<>>
    /\ last' = FactoryRecord("setenv", <<name>>, FactoryResult(FactoryState, Returned, None, <<>>))
    /\ UNCHANGED <<trello, jira, manager, reachable, configs, service_registry, initialized, threads>>

\* a backend's server starts or stops accepting the connection
server(service_type, up) ==
    /\ (service_type \in reachable) # up
    /\ reachable' = IF up THEN reachable \cup {service_type} ELSE reachable \ {service_type}
    /\ trace' = <<>>
    /\ last' = FactoryRecord("server", <<service_type>>,
                             FactoryResult(FactoryState, Returned, None, <<>>))
    /\ UNCHANGED <<trello, jira, manager, environ, configs, service_registry, initialized, threads>>

---------------------------------------------------------------------------
(* TrelloTaskService: one remote call at a time *)

\* the part of the state the remote calls read and write
Store == [lists |-> lists, nextId |-> nextId, descLog |-> descLog]

\* the operations followed call by call
SteppedOperations ==
    {"add_task", "mark_as_completed", "update_task_description", "delete_all_tasks"}

\* <<list index, card index>> of the card with the id, <<0, 0>> when deleted
PositionOf(board, id) ==
    IF HasCardId(board, id)
    THEN CHOOSE at \in {<<l, c>> : l \in DOMAIN board, c \in 1..MaxCards} :
            /\ at[2] \in DOMAIN board[at[1]].cards
            /\ board[at[1]].cards[at[2]].id = id
    ELSE <<0, 0>>

\* a variant that lists the cards of the whole board
list_cards_of_board(board, li) ==
    LET RECURSIVE all(_)
        all(l) == IF l > Len(board) THEN <<>> ELSE board[l].cards \o all(l + 1)
    IN all(1)

\* board_list.list_cards()
list_cards(board, li) == board[li].cards

\* the call returns or raises
returned(st, f, result, value) ==
    [store |-> st, frame |-> [f EXCEPT !.at = "returned", !.result = result, !.value = value]]

\* a remote call on a card that is not on the board any more fails, and the
\* except clause of the operation makes it a TaskServiceConnectionError
card_gone(st, f) == returned(st, f, "TaskServiceConnectionError", "")

\* self.selected_board.all_lists(), in _find_existing_list
step_all_lists(st, f) ==
    LET li == find_existing_list(st.lists, f.project) IN
    IF f.op = "add_task"
    THEN [store |-> st,
          frame |-> [f EXCEPT !.board_list = li,
                              !.at = IF li = 0 THEN "add_list" ELSE "add_card"]]
    ELSE IF li = 0
    THEN IF f.op = "delete_all_tasks" THEN returned(st, f, "ok", "not found")
         ELSE returned(st, f, "TaskNotFoundError", "")
    ELSE [store |-> st, frame |-> [f EXCEPT !.board_list = li, !.at = "list_cards"]]

\* self.selected_board.add_list(project_name), in _find_or_create_list
step_add_list(st, f) ==
    [store |-> [st EXCEPT !.lists = Append(@, [name |-> f.project, cards |-> <<>>])],
     frame |-> [f EXCEPT !.board_list = Len(st.lists) + 1, !.at = "add_card"]]

\* board_list.add_card(name=title, desc=description, position="bottom")
step_add_card(st, f) ==
    returned([st EXCEPT !.lists[f.board_list].cards =
                            Append(@, NewCard(st.nextId, f.title, f.arg)),
                        !.nextId = @ + 1,
                        !.descLog = Append(@, <<f.arg>>)],
             f, "ok", "added")

\* board_list.list_cards(), in _find_card_or_raise and in delete_all_tasks
step_list_cards(st, f) ==
    LET cards == list_cards(st.lists, f.board_list)
        ci == find_card(cards, f.title)
    IN IF f.op = "delete_all_tasks"
       THEN IF cards = <<>> THEN returned(st, f, "ok", "deleted")
            ELSE [store |-> st,
                  frame |-> [f EXCEPT !.cards = [i \in DOMAIN cards |-> cards[i].id],
                                      !.at = "delete"]]
       ELSE IF ci = 0 THEN returned(st, f, "TaskNotFoundError", "")
       ELSE [store |-> st,
             frame |-> [f EXCEPT
                 !.card = cards[ci].id,
                 !.at = IF f.op = "update_task_description" THEN "fetch"
                        ELSE IF /\ WIP_LABEL_NAME \in DOMAIN labels
                                /\ labels[WIP_LABEL_NAME] \in cards[ci].labels
                        THEN "remove_label"
                        ELSE "set_due_complete"]]

\* card.fetch(), in update_task_description
step_fetch(st, f) ==
    LET at == PositionOf(st.lists, f.card) IN
    IF at = <<0, 0>> THEN card_gone(st, f)
    ELSE [store |-> st,
          frame |-> [f EXCEPT !.text = CardAt(st.lists, at).desc, !.at = "set_description"]]

\* card.set_description(updated_description)
step_set_description(st, f) ==
    LET at == PositionOf(st.lists, f.card)
        updated_description ==
            IF f.text # <<>> THEN UpdatedText(f.text, f.arg) ELSE CreatedText(f.arg)
    IN IF at = <<0, 0>> THEN card_gone(st, f)
       ELSE returned([st EXCEPT !.lists[at[1]].cards[at[2]].desc = updated_description,
                                !.descLog[f.card] = Append(@, f.arg)],
                     f, "ok", "updated")

\* card.remove_label(self.labels[WIP_LABEL_NAME])
step_remove_label(st, f) ==
    LET at == PositionOf(st.lists, f.card) IN
    IF at = <<0, 0>> THEN card_gone(st, f)
    ELSE [store |-> [st EXCEPT !.lists[at[1]].cards[at[2]] =
                                   remove_label(@, labels[WIP_LABEL_NAME])],
          frame |-> [f EXCEPT !.at = "set_due_complete"]]

\* card.set_due_complete()
step_set_due_complete(st, f) ==
    LET at == PositionOf(st.lists, f.card) IN
    IF at = <<0, 0>> THEN card_gone(st, f)
    ELSE returned([st EXCEPT !.lists[at[1]].cards[at[2]] = set_due_complete(@)],
                  f, "ok", "completed")

\* card.delete(), for the next card of the loop of delete_all_tasks
step_delete(st, f) ==
    LET id == Head(f.cards)
        at == PositionOf(st.lists, id)
        board == [st.lists EXCEPT ![at[1]].cards =
                     SelectSeq(@, LAMBDA card : card.id # id)]
        deleted == [st EXCEPT !.lists = board, !.descLog[id] = <<>>]
    IN IF at = <<0, 0>> THEN card_gone(st, f)
       ELSE IF Tail(f.cards) = <<>> THEN returned(deleted, f, "ok", "deleted")
       ELSE [store |-> deleted, frame |-> [f EXCEPT !.cards = Tail(@)]]

\* the next remote call of a call in progress
call_step(st, f) ==
    CASE f.at = "all_lists" -> step_all_lists(st, f)
      [] f.at = "add_list" -> step_add_list(st, f)
      [] f.at = "add_card" -> step_add_card(st, f)
      [] f.at = "list_cards" -> step_list_cards(st, f)
      [] f.at = "fetch" -> step_fetch(st, f)
      [] f.at = "set_description" -> step_set_description(st, f)
      [] f.at = "remove_label" -> step_remove_label(st, f)
      [] f.at = "set_due_complete" -> step_set_due_complete(st, f)
      [] f.at = "delete" -> step_delete(st, f)

\* a call followed to its end with no other call in between
RECURSIVE run(_, _)
run(st, f) ==
    IF f.at = "returned" THEN [store |-> st, frame |-> f]
    ELSE TheOne({run(next.store, next.frame) : next \in {call_step(st, f)}})

InProgress(f) == f.at \notin {"idle", "returned"}

\* a thread calls an operation of the instance
issue(t, op, project_name, title, arg) ==
    /\ calls[t].at = "idle"
    /\ op = "add_task" =>
          nextId + Cardinality({u \in Threads : InProgress(calls[u])
                                                   /\ calls[u].op = "add_task"}) <= MaxCards
    /\ op = "update_task_description" =>
          /\ \A u \in Threads : calls[u].op # "update_task_description"
          /\ \A l \in DOMAIN lists : \A c \in DOMAIN lists[l].cards :
                UpdatesIn(lists[l].cards[c].desc) < MaxUpdates
    /\ calls' = [calls EXCEPT ![t] = Frame(op, project_name, title, arg)]
    /\ start' = IF \A u \in Threads : calls[u].at = "idle" THEN Store ELSE start
    /\ UNCHANGED <<trello, last, jira, manager, factory>>

\* the call of a thread makes its next remote call
proceed(t) ==
    /\ InProgress(calls[t])
    /\ LET next == call_step(Store, calls[t]) IN
          /\ lists' = next.store.lists
          /\ nextId' = next.store.nextId
          /\ descLog' = next.store.descLog
          /\ calls' = [calls EXCEPT ![t] = next.frame]
    /\ UNCHANGED <<start, last, jira, manager, factory>>

\* the callers take their results
collect ==
    /\ \E t \in Threads : calls[t].at = "returned"
    /\ \A t \in Threads : ~InProgress(calls[t])
    /\ calls' = [t \in Threads |-> IdleFrame]
    /\ UNCHANGED <<start, trello, last, jira, manager, factory>>

---------------------------------------------------------------------------
(* Specifications *)

\* TrelloTaskService: tasks and their status
StatusNext ==
    \/ \E p \in Projects, t \in Titles : add_task(p, t, <<"d">>)
    \/ \E p \in Projects : get_next_task(p)
    \/ \E p \in Projects, t \in Titles : mark_as_in_progress(p, t)
    \/ \E p \in Projects, t \in Titles : mark_as_completed(p, t)
    \/ \E p \in Projects, f \in FilterInputs : get_tasks(p, f)
    \/ \E p \in Projects, t \in Titles : get_task_status(p, t)
    \/ \E p \in Projects, t \in Titles, s \in StatusInputs : set_task_status(p, t, s)
    \/ \E p \in Projects : delete_all_tasks(p)

StatusSpec == Init /\ [][StatusNext]_vars

\* TrelloTaskService: descriptions
DescriptionNext ==
    \/ \E t \in Titles, d \in TaskTexts : add_task("P", t, d)
    \/ \E t \in Titles, x \in UpdateTexts : update_task_description("P", t, x)
    \/ \E t \in Titles : mark_as_completed("P", t)
    \/ get_tasks("P", "all")
    \/ delete_all_tasks("P")

DescriptionSpec == Init /\ [][DescriptionNext]_vars

\* TrelloTaskService: checklists
ChecklistNext ==
    \/ \E t \in Titles : add_task("P", t, <<"d">>)
    \/ \E t \in Titles, items \in ItemLists : update_task_with_checklist("P", t, items)
    \/ \E t \in Titles, n \in ItemNames : complete_checklist_item("P", t, n)
    \/ \E t \in Titles : get_next_unchecked_checklist_item("P", t)
    \/ \E t \in Titles : set_task_status("P", t, "todo")
    \/ delete_all_tasks("P")

ChecklistSpec == Init /\ [][ChecklistNext]_vars

\* Both adapters side by side
AdapterNext ==
    \/ add_task("P", "T", <<"d">>)
    \/ \E p \in Projects, t \in Titles, s \in StatusInputs : set_task_status(p, t, s)
    \/ \E p \in Projects, t \in Titles : get_task_status(p, t)
    \/ \E p \in JiraProjectInputs : jira_add_task(p, <<"T">>, <<"d">>)
    \/ \E p \in JiraProjectInputs, t \in JiraTitles : jira_get_task_status(p, t)
    \/ \E p \in JiraProjectInputs, t \in JiraTitles, s \in StatusInputs :
          jira_set_task_status(p, t, s)

AdapterSpec == Init /\ [][AdapterNext]_vars

\* JiraTaskService
JiraNext ==
    \/ \E p \in JiraProjectInputs, t \in JiraTitles, d \in JiraTexts : jira_add_task(p, t, d)
    \/ \E p \in JiraProjectInputs, t \in JiraTitles, x \in JiraTexts :
          jira_update_task_description(p, t, x)
    \/ \E p \in JiraProjectInputs, t \in JiraTitles : jira_get_task_status(p, t)
    \/ \E p \in JiraProjectInputs, t \in JiraTitles, s \in StatusInputs :
          jira_set_task_status(p, t, s)
    \/ \E p \in JiraProjectInputs, f \in FilterInputs : jira_get_tasks(p, f)

JiraSpec == Init /\ [][JiraNext]_vars

\* TrelloTaskService: the twelve operations of the contract on one task
ContractNext ==
    \/ add_task("P", "T", <<"d">>)
    \/ get_next_task("P")
    \/ mark_as_in_progress("P", "T")
    \/ mark_as_completed("P", "T")
    \/ update_task_description("P", "T", <<"x">>)
    \/ \E items \in ItemLists : update_task_with_checklist("P", "T", items)
    \/ \E n \in ItemNames : complete_checklist_item("P", "T", n)
    \/ get_next_unchecked_checklist_item("P", "T")
    \/ get_tasks("P", "all")
    \/ get_task_status("P", "T")
    \/ \E s \in ValidStatuses : set_task_status("P", "T", s)
    \/ delete_all_tasks("P")

ContractSpec == Init /\ [][ContractNext]_vars

\* the checklist tools of main_cli.py on TrelloTaskManager
ManagerNext ==
    \/ \E p \in Projects : manager_add_task(p, "T", <<"d">>)
    \/ \E items \in ItemLists : manager_update_task_with_checklist("P", "T", items)
    \/ \E n \in ItemNames : manager_complete_checklist_item("P", "T", n)
    \/ manager_get_next_unchecked_checklist_item("P", "T")

ManagerSpec == Init /\ [][ManagerNext]_vars

\* TrelloTaskService: every operation, on a project that has a list after
\* its first add_task and on one that never has
ProjectNext ==
    \/ add_task("P", "T", <<"d">>)
    \/ \E p \in Projects : get_next_task(p)
    \/ \E p \in Projects : mark_as_in_progress(p, "T")
    \/ \E p \in Projects : mark_as_completed(p, "T")
    \/ \E p \in Projects : update_task_description(p, "T", <<"x">>)
    \/ \E p \in Projects : update_task_with_checklist(p, "T", <<"a">>)
    \/ \E p \in Projects : complete_checklist_item(p, "T", "a")
    \/ \E p \in Projects : get_next_unchecked_checklist_item(p, "T")
    \/ \E p \in Projects : get_tasks(p, "all")
    \/ \E p \in Projects : get_task_status(p, "T")
    \/ \E p \in Projects : \E s \in {"wip", "bogus"} : set_task_status(p, "T", s)
    \/ \E p \in Projects : delete_all_tasks(p)

ProjectSpec == Init /\ [][ProjectNext]_vars

\* both adapters with remote calls that fail
FailureNext ==
    \/ add_task("P", "T", <<"d">>)
    \/ get_next_task("Q")
    \/ get_next_unchecked_checklist_item("P", "T")
    \/ complete_checklist_item("P", "T", "a")
    \/ \E s \in {"wip", "bogus"} : set_task_status("P", "T", s)
    \/ \E op \in Operations : \E arg \in FailureArgs(op) : \E kind \in RemoteExceptions :
          trello_remote_failure(op, "P", IF NoTitle(op) THEN None ELSE "T", arg, kind)
    \/ jira_add_task("P", <<"T">>, <<"d">>)
    \/ jira_get_task_status("P", <<"T", "U">>)
    \/ jira_set_task_status("P", <<"T">>, "bogus")
    \/ \E op \in Operations : \E arg \in FailureArgs(op) : \E kind \in RemoteExceptions :
          jira_remote_failure(op, "P", IF NoTitle(op) THEN None ELSE <<"T">>, arg, kind)

FailureSpec == Init /\ [][FailureNext]_vars

\* TrelloTaskService: bulk delete, with card deletions that may fail
DeleteNext ==
    \/ \E p \in Projects : \E t \in Titles : add_task(p, t, <<"d">>)
    \/ \E p \in Projects : get_tasks(p, "all")
    \/ \E p \in Projects : delete_all_tasks(p)
    \/ \E p \in Projects : \E kind \in RemoteExceptions :
          trello_remote_failure("delete_all_tasks", p, None, None, kind)

DeleteSpec == Init /\ [][DeleteNext]_vars

\* TaskServiceFactory and ConfigurationManager under a changing environment
FactoryEnvChanges ==
    {<<"ACTIVE_TASK_SERVICE", "">>, <<"ACTIVE_TASK_SERVICE", "trello">>,
     <<"ACTIVE_TASK_SERVICE", "jira">>, <<"ACTIVE_TASK_SERVICE", "asana">>,
     <<"TRELLO_API_KEY", <<>>>>, <<"TRELLO_API_KEY", Key10>>,
     <<"JIRA_SERVER_URL", FtpUrl>>, <<"JIRA_SERVER_URL", HttpsUrl>>}

FactoryConfigs == {NoConfig, TrelloConfig(Key10, Key10, Name1), TrelloConfig(Key10, <<>>, <<>>)}

FactoryNext ==
    \/ \E change \in FactoryEnvChanges : setenv(change[1], change[2])
    \/ \E up \in BOOLEAN : server("trello", up)
    \/ \E service_type \in ServiceNames, config \in FactoryConfigs :
          create_service(service_type, config)
    \/ create_default_service
    \/ unregister_service("trello")
    \/ clear_registry
    \/ clear_configs

FactorySpec == Init /\ [][FactoryNext]_vars

\* TaskServiceFactory.create_service_with_fallback under a changing environment
FallbackEnvChanges ==
    {<<"TRELLO_API_KEY", <<>>>>, <<"TRELLO_API_KEY", Key10>>,
     <<"JIRA_SERVER_URL", FtpUrl>>, <<"JIRA_SERVER_URL", HttpsUrl>>}

FallbackInputs == {<<>>, <<"jira">>, <<"asana", "trello">>}

FallbackNext ==
    \/ \E change \in FallbackEnvChanges : setenv(change[1], change[2])
    \/ \E service_type \in ServiceType, up \in BOOLEAN : server(service_type, up)
    \/ \E preferred_service \in ServiceNames,
          fallback_services \in FallbackInputs \cup {DefaultFallbacks} :
          create_service_with_fallback(preferred_service, fallback_services)
    \/ unregister_service("jira")
    \/ clear_registry

FallbackSpec == Init /\ [][FallbackNext]_vars

\* The registry of TaskServiceFactory
RegistryNext ==
    \/ \E service_type \in ServiceType, service_class \in ServiceClasses :
          register_service(service_type, service_class)
    \/ \E service_name \in {"JIRA", "asana"}, service_class \in {"CustomService", "dict"} :
          register_service_by_name(service_name, service_class)
    \/ \E service_type \in ServiceType : unregister_service(service_type)
    \/ clear_registry
    \/ get_registered_services
    \/ \E service_type \in ServiceType : create_service(service_type, NoConfig)
    \/ create_default_service

RegistrySpec == Init /\ [][RegistryNext]_vars

\* ConfigurationManager.register_config on every combination of field values
TrelloConfigInputs ==
    {TrelloConfig(api_key, api_token, board_name) :
        api_key \in {<<>>, Key3, Key10}, api_token \in {<<>>, Key3, Key10},
        board_name \in {<<>>, Name1}}

JiraConfigInputs ==
    {JiraConfig(server_url, username, api_token, project_key) :
        server_url \in {<<>>, FtpUrl, HttpUrl, HttpsUrl}, username \in {<<>>, Name1},
        api_token \in {<<>>, Key3}, project_key \in {<<>>, ProjectKey1, ProjectKey2}}

ConfigNext ==
    \/ \E config \in TrelloConfigInputs \cup JiraConfigInputs : register_config(config)
    \/ clear_configs

ConfigSpec == Init /\ [][ConfigNext]_vars

\* TrelloTaskManager: two projects
CacheNext ==
    \/ \E p \in Projects, t \in Titles : manager_add_task(p, t, <<"d">>)
    \/ \E p \in Projects, f \in {"all", "todo"} : manager_get_tasks(p, f)
    \/ \E p \in Projects : manager_get_next_task(p)
    \/ \E p \in Projects : manager_delete_all_tasks(p)
    \/ \E p \in Projects, t \in Titles :
          manager_update_task_with_checklist(p, t, <<"a">>)

CacheSpec == Init /\ [][CacheNext]_vars

\* JiraTaskService: the next task among issues in every workflow state
NextIssueNext ==
    \/ \E t \in JiraTitles : jira_add_task("P", t, <<"d">>)
    \/ \E s \in ValidStatuses : jira_set_task_status("P", <<"T">>, s)
    \/ \E t \in JiraTitles : jira_get_task_status("P", t)
    \/ \E p \in JiraProjectInputs : jira_get_next_task(p)

NextIssueSpec == Init /\ [][NextIssueNext]_vars

\* the calls the two threads make
ConcurrentCalls ==
    {<<"add_task", <<"d">>>>, <<"mark_as_completed", <<>>>>,
     <<"update_task_description", <<"x">>>>, <<"delete_all_tasks", <<>>>>}

\* Two threads on one TrelloTaskService
ConcurrentNext ==
    \/ \E t \in Threads, p \in Projects, call \in ConcurrentCalls :
          issue(t, call[1], p, "T", call[2])
    \/ \E t \in Threads : proceed(t)
    \/ collect

ConcurrentSpec == Init /\ [][ConcurrentNext]_vars

\* Cards of one title: two in project P, or one in P and one in Q
TargetNext ==
    \/ \E p \in Projects : add_task(p, "T", <<"d">>)
    \/ mark_as_in_progress("P", "T")
    \/ mark_as_completed("P", "T")
    \/ \E s \in {"todo", "done"} : set_task_status("P", "T", s)
    \/ update_task_description("P", "T", <<"x">>)
    \/ update_task_with_checklist("P", "T", <<"a">>)
    \/ complete_checklist_item("P", "T", "a")
    \/ get_next_task("P")
    \/ get_tasks("P", "all")
    \/ get_task_status("P", "T")
    \/ get_next_unchecked_checklist_item("P", "T")

TargetSpec == Init /\ [][TargetNext]_vars

\* every operation of TrelloTaskService
Next ==
    \/ \E p \in Projects, t \in Titles, d \in TaskTexts : add_task(p, t, d)
    \/ \E p \in Projects : get_next_task(p)
    \/ \E p \in Projects, t \in Titles : mark_as_in_progress(p, t)
    \/ \E p \in Projects, t \in Titles : mark_as_completed(p, t)
    \/ \E p \in Projects, t \in Titles, x \in UpdateTexts : update_task_description(p, t, x)
    \/ \E p \in Projects, t \in Titles, items \in ItemLists :
          update_task_with_checklist(p, t, items)
    \/ \E p \in Projects, t \in Titles, n \in ItemNames : complete_checklist_item(p, t, n)
    \/ \E p \in Projects, t \in Titles : get_next_unchecked_checklist_item(p, t)
    \/ \E p \in Projects, f \in FilterInputs : get_tasks(p, f)
    \/ \E p \in Projects, t \in Titles : get_task_status(p, t)
    \/ \E p \in Projects, t \in Titles, s \in StatusInputs : set_task_status(p, t, s)
    \/ \E p \in Projects : delete_all_tasks(p)

Spec == Init /\ [][Next]_vars

---------------------------------------------------------------------------
(* Properties *)

CardsOn(board) ==
    UNION {{board[l].cards[c] : c \in DOMAIN board[l].cards} : l \in DOMAIN board}

HasCard(board, id) == \E card \in CardsOn(board) : card.id = id
CardById(board, id) == CHOOSE card \in CardsOn(board) : card.id = id

Found(board, project_name, title) ==
    find_card_or_raise(board, project_name, title) # <<0, 0>>
TargetCard(board, project_name, title) ==
    CardAt(board, find_card_or_raise(board, project_name, title))

MarkersOf(card) ==
    [wip |-> WIP_LABEL_NAME \in card.labels, done |-> card.is_due_complete]

\* the status the two markers stand for: completion first, then WIP
StatusOfMarkers(wip, done) ==
    IF done THEN "done" ELSE IF wip THEN "wip" ELSE "todo"

Did(op) == last.op = op /\ last.result = "ok"

\* C1: get_task_status returns done when the due-complete flag is set,
\* whatever the WIP label; otherwise wip when the WIP label is present;
\* otherwise todo.  Every entry of get_tasks carries the status that rule
\* gives for its card, and with the filter "all" every card has its entry.
C1_StatusDerivation ==
    /\ (last.op = "get_task_status" /\ Found(lists, last.project, last.title)) =>
          LET card == TargetCard(lists, last.project, last.title) IN
          /\ last.result = "ok"
          /\ card.is_due_complete => last.value = "done"
          /\ (~card.is_due_complete /\ WIP_LABEL_NAME \in card.labels) => last.value = "wip"
          /\ (~card.is_due_complete /\ WIP_LABEL_NAME \notin card.labels) => last.value = "todo"
    /\ Did("get_tasks") =>
          /\ \A i \in DOMAIN last.value :
                /\ HasCard(lists, last.value[i].id)
                /\ LET card == CardById(lists, last.value[i].id) IN
                   last.value[i].status =
                       StatusOfMarkers(WIP_LABEL_NAME \in card.labels, card.is_due_complete)
          /\ (last.arg = "all" /\ find_existing_list(lists, last.project) # 0) =>
                LET cards == lists[find_existing_list(lists, last.project)].cards IN
                /\ Len(last.value) = Len(cards)
                /\ \A i \in DOMAIN cards : last.value[i].id = cards[i].id

\* C1 witness: get_task_status answered done for a card that carries the WIP
\* label and the due-complete flag
C1_Witness ==
    /\ Did("get_task_status")
    /\ last.value = "done"
    /\ MarkersOf(TargetCard(lists, last.project, last.title)) = [wip |-> TRUE, done |-> TRUE]

\* C2: after add_task(P,T,d) with no card T in P before, get_task_status(P,T)
\* is todo; after mark_as_in_progress on that todo card it is wip; after
\* mark_as_completed on that wip card it is done.
C2_Lifecycle ==
    LET now == get_task_status_result(lists, last.project, last.title) IN
    /\ (Did("add_task") /\ ~last.pre.found) =>
          now = [result |-> "ok", value |-> "todo"]
    /\ (Did("mark_as_in_progress") /\ last.pre = [found |-> TRUE, wip |-> FALSE, done |-> FALSE]) =>
          now = [result |-> "ok", value |-> "wip"]
    /\ (Did("mark_as_completed") /\ last.pre = [found |-> TRUE, wip |-> TRUE, done |-> FALSE]) =>
          now = [result |-> "ok", value |-> "done"]

\* C2 witness: a wip card was completed on a board that holds another card
C2_Witness ==
    /\ Did("mark_as_completed")
    /\ last.pre = [found |-> TRUE, wip |-> TRUE, done |-> FALSE]
    /\ Cardinality(CardsOn(lists)) = 2
    /\ get_task_status_result(lists, last.project, last.title).value = "done"

\* C3: after a set_task_status(P,T,s) that succeeds, get_task_status(P,T)
\* returns s; a second set_task_status(P,T,s) right after a successful one
\* leaves the markers of the card, and so its status, as they were.
C3_SetStatus ==
    [][ /\ (last'.op = "set_task_status" /\ last'.result = "ok") =>
              get_task_status_result(lists', last'.project, last'.title)
                  = [result |-> "ok", value |-> last'.arg]
        /\ (/\ Did("set_task_status")
            /\ last'.op = "set_task_status"
            /\ last'.project = last.project
            /\ last'.title = last.title
            /\ last'.arg = last.arg) =>
              /\ Found(lists', last.project, last.title)
              /\ MarkersOf(TargetCard(lists', last.project, last.title))
                    = MarkersOf(TargetCard(lists, last.project, last.title))
              /\ get_task_status_result(lists', last.project, last.title).value = last.arg
      ]_vars

\* C3 witness: set_task_status succeeded a second time in a row
C3_Witness ==
    /\ Did("set_task_status")
    /\ last.again
    /\ last.pre.found
    /\ last.arg = "done"

C5_Completed ==
    Did("mark_as_completed") =>
        /\ Found(lists, last.project, last.title)
        /\ MarkersOf(TargetCard(lists, last.project, last.title))
              = [wip |-> FALSE, done |-> TRUE]
        /\ last.again => last.pre = [found |-> TRUE, wip |-> FALSE, done |-> TRUE]

\* C5 witness: a card with both markers was completed
C5_Witness ==
    /\ Did("mark_as_completed")
    /\ last.pre = [found |-> TRUE, wip |-> TRUE, done |-> TRUE]

\* the texts occur in desc one after the other, in this order
RECURSIVE ContainsInOrder(_, _)
ContainsInOrder(desc, texts) ==
    IF texts = <<>> THEN TRUE
    ELSE \E i \in 1..(Len(desc) + 1) :
            /\ i + Len(Head(texts)) - 1 <= Len(desc)
            /\ SubSeq(desc, i, i + Len(Head(texts)) - 1) = Head(texts)
            /\ ContainsInOrder(SubSeq(desc, i + Len(Head(texts)), Len(desc)), Tail(texts))

\* C6: update_task_description(P,T,x) on a card with a non-empty description
\* d sets it to d, a blank line, the "Updated on" header and x (d a prefix, x
\* the suffix); on an empty description it sets the "Created on" header and
\* x.  After any updates the description holds the text given to add_task
\* and every text given to an update, in call order.
C6_AppendOnly ==
    [][ /\ (last'.op = "update_task_description" /\ last'.result = "ok") =>
              LET at == find_card_or_raise(lists, last'.project, last'.title)
                  d == CardAt(lists, at).desc
                  new == CardAt(lists', at).desc
                  x == last'.arg
              IN IF d # <<>>
                 THEN /\ new = d \o <<"\n\n--- Updated on ", Timestamp, " ---\n">> \o x
                      /\ IsPrefix(d, new)
                      /\ IsSuffix(x, new)
                 ELSE new = <<"--- Created on ", Timestamp, " ---\n">> \o x
        /\ \A card \in CardsOn(lists') :
              ContainsInOrder(card.desc, descLog'[card.id])
      ]_vars

\* C6 witness: a card added with a text was updated twice, with two texts
C6_Witness ==
    /\ Did("update_task_description")
    /\ \E card \in CardsOn(lists) :
          /\ card.id = last.value
          /\ descLog[card.id] = <<<<"d">>, <<"y">>, <<"x">>>>

\* C7: JiraTaskService.update_task_description(P,T,x) keeps what the issue's
\* description held: the new description starts with the old one and ends
\* with x after it.
C7_JiraAppendOnly ==
    [][ (last'.op = "jira.update_task_description" /\ last'.result = "ok") =>
          LET k == last'.value
              old == extract_description_text(issues[k].description)
              new == extract_description_text(issues'[k].description)
              x == last'.arg
          IN /\ IsPrefix(old, new)
             /\ IsSuffix(x, new)
             /\ Len(new) >= Len(old) + Len(x)
      ]_vars

---------------------------------------------------------------------------
(* Checklists *)

ItemsOf(board, project_name, title) ==
    DefaultItems(TargetCard(board, project_name, title).checklists)

Unchecked(items) == {i \in DOMAIN items : ~items[i].checked}

Least(S) == CHOOSE i \in S : \A j \in S : i <= j

\* the items of a Trello checklist as ChecklistItem values of the domain model
AsChecklist(items) ==
    [i \in DOMAIN items |-> [name |-> items[i].name, checked |-> items[i].checked]]

ChecklistsOn(board) ==
    UNION {{AsChecklist(card.checklists[k].items) : k \in DOMAIN card.checklists} :
             card \in CardsOn(board)}

NameIsUnique(items, name) ==
    Cardinality({i \in DOMAIN items : items[i].name = name}) = 1

\* get_next_unchecked_checklist_item on a checklist with an unchecked item
\* returns the first unchecked item in list order
ReturnsFirstUnchecked ==
    (last.op = "get_next_unchecked_checklist_item"
        /\ Found(lists, last.project, last.title)) =>
        LET items == ItemsOf(lists, last.project, last.title) IN
        Unchecked(items) # {} =>
            /\ last.result = "ok"
            /\ last.value = items[Least(Unchecked(items))]

\* a step that completes, by name, the item the previous call returned
CompletesReturned ==
    /\ Did("get_next_unchecked_checklist_item")
    /\ last'.op = "complete_checklist_item"
    /\ last'.result = "ok"
    /\ last'.project = last.project
    /\ last'.title = last.title
    /\ last'.arg = last.value.name

\* the call after that step returns the unchecked item that followed the
\* returned one, and fails when none followed
ReturnsFollowing ==
    LET items == ItemsOf(lists, last.project, last.title)
        pos == CHOOSE i \in DOMAIN items : items[i].id = last.value.id
        later == {j \in Unchecked(items) : j > pos}
        nxt == get_next_unchecked_checklist_item_result(lists', last.project, last.title)
    IN IF later = {}
       THEN nxt.result # "ok"
       ELSE nxt.result = "ok" /\ nxt.value.id = items[Least(later)].id

\* Checklist.get_next_unchecked_item returns the first unchecked item, None
\* when there is none; unique says whether the rule about the following item
\* is asked only of an item whose name no other item carries
DomainNextUnchecked(unique) ==
    \A items \in ChecklistsOn(lists) :
        LET ix == Checklist_get_next_unchecked_item(items) IN
        IF Unchecked(items) = {}
        THEN ix = 0
        ELSE /\ ix = Least(Unchecked(items))
             /\ (unique => NameIsUnique(items, items[ix].name)) =>
                   LET after == Checklist_complete_item(items, items[ix].name).items
                       later == {j \in Unchecked(items) : j > ix}
                   IN Checklist_get_next_unchecked_item(after) =
                         IF later = {} THEN 0 ELSE Least(later)

\* C8 as stated: get_next_unchecked_checklist_item returns the first
\* unchecked item of the checklist; after complete_checklist_item on the
\* returned item the next call returns the following unchecked item; and
\* Checklist.get_next_unchecked_item obeys the same rule.
C8_AsStated ==
    [][/\ ReturnsFirstUnchecked'
       /\ CompletesReturned => ReturnsFollowing
       /\ DomainNextUnchecked(FALSE)]_vars

\* C8: the same, where the rule about the following item is asked only when
\* no other item of the checklist carries the name of the returned item
\* (complete_checklist_item and Checklist.complete_item look the item up by
\* its name).
C8_NextUnchecked ==
    [][/\ ReturnsFirstUnchecked'
       /\ (CompletesReturned
             /\ NameIsUnique(ItemsOf(lists, last.project, last.title), last.value.name))
          => ReturnsFollowing
       /\ DomainNextUnchecked(TRUE)]_vars

\* the call returned the second item, the first one being checked
C8_Witness ==
    /\ Did("get_next_unchecked_checklist_item")
    /\ LET items == ItemsOf(lists, last.project, last.title) IN
       /\ Len(items) >= 2
       /\ items[1].checked
       /\ items[1].name # items[2].name
       /\ last.value = items[2]

\* C9: get_next_unchecked_checklist_item raises ChecklistItemNotFoundError
\* when the task has a checklist named 'Checklist' with no unchecked item
\* (all checked, or no items), and ChecklistNotFoundError only when the task
\* has no checklist of that name.
C9_ErrorKinds ==
    (last.op = "get_next_unchecked_checklist_item"
        /\ Found(lists, last.project, last.title)) =>
        LET card == TargetCard(lists, last.project, last.title)
            k == find_default_checklist(card)
        IN /\ (k # 0 /\ Unchecked(DefaultItems(card.checklists)) = {})
                 => last.result = "ChecklistItemNotFoundError"
           /\ last.result = "ChecklistNotFoundError" => k = 0

\* every checked item of a card is still there, and still checked, after
\* the step, as long as the card exists
CheckedStaysChecked ==
    \A card \in CardsOn(lists) :
        HasCard(lists', card.id) =>
            LET after == CardById(lists', card.id) IN
            \A k \in DOMAIN card.checklists :
                /\ k \in DOMAIN after.checklists
                /\ \A i \in DOMAIN card.checklists[k].items :
                      card.checklists[k].items[i].checked =>
                          /\ i \in DOMAIN after.checklists[k].items
                          /\ after.checklists[k].items[i].id = card.checklists[k].items[i].id
                          /\ after.checklists[k].items[i].checked

\* no method of Checklist unchecks an item
DomainCheckedStaysChecked ==
    \A items \in ChecklistsOn(lists) :
        \A n \in ItemNames :
            LET completed == Checklist_complete_item(items, n).items
                added == Checklist_add_item(items, n)
            IN \A i \in DOMAIN items :
                  items[i].checked => completed[i].checked /\ added[i].checked

\* C10: once a checklist item is checked, no operation of the contract
\* (update_task_with_checklist, set_task_status and repeated
\* complete_checklist_item included) unchecks it, and neither does a method
\* of the domain Checklist.
C10_NeverUnchecked ==
    [][CheckedStaysChecked /\ DomainCheckedStaysChecked]_vars

\* items were appended to a checklist that holds a checked item
C10_Witness ==
    /\ Did("update_task_with_checklist")
    /\ last.arg # <<>>
    /\ \E i \in DOMAIN ItemsOf(lists, last.project, last.title) :
          ItemsOf(lists, last.project, last.title)[i].checked

DefaultChecklists(card) ==
    {k \in DOMAIN card.checklists : card.checklists[k].name = DEFAULT_CHECKLIST_NAME}

NamesOf(items) == [i \in DOMAIN items |-> items[i].name]

\* a successful update_task_with_checklist leaves the task with one
\* checklist named 'Checklist' whose items are the former ones, unchanged,
\* followed by the items passed
AppendsItems ==
    (last'.op = "update_task_with_checklist" /\ last'.result = "ok") =>
        LET before == TargetCard(lists, last'.project, last'.title)
            after == TargetCard(lists', last'.project, last'.title)
            old == DefaultItems(before.checklists)
            new == DefaultItems(after.checklists)
        IN /\ after.id = before.id
           /\ Cardinality(DefaultChecklists(after)) = 1
           /\ NamesOf(new) = NamesOf(old) \o last'.arg
           /\ SubSeq(new, 1, Len(old)) = old
           /\ \A i \in (Len(old) + 1)..Len(new) : ~new[i].checked

\* no other operation adds, removes or renames an item of a card it keeps
OthersKeepItems ==
    last'.op # "update_task_with_checklist" =>
        \A card \in CardsOn(lists) :
            HasCard(lists', card.id) =>
                NamesOf(DefaultItems(CardById(lists', card.id).checklists))
                    = NamesOf(DefaultItems(card.checklists))

\* C11: after any sequence of successful update_task_with_checklist calls
\* on one task, the task has exactly one checklist named 'Checklist' whose
\* items are the concatenation, in call order, of the item lists passed:
\* the first call creates it, every later call appends, and checked items
\* stay checked.
C11_AppendsToOneChecklist ==
    [][AppendsItems /\ OthersKeepItems]_vars

\* a second call appended items behind a checked one
C11_Witness ==
    /\ Did("update_task_with_checklist")
    /\ last.arg # <<>>
    /\ LET items == ItemsOf(lists, last.project, last.title) IN
       /\ Len(items) > Len(last.arg)
       /\ items[1].checked
       /\ ~items[Len(items)].checked

\* the card a tool of main_cli.py acts on
ManagerFound(board, title) ==
    manager_find_card(board, title)[1] # 0 /\ manager_find_card(board, title)[2] # 0
ManagerTargetCard(board, title) == CardAt(board, manager_find_card(board, title))

\* the update_task_with_checklist tool, called for a task that has a
\* checklist, appends the items to it and creates no second checklist
ToolAppends ==
    (/\ last'.op = "manager_update_task_with_checklist"
     /\ last'.result = "ok"
     /\ DefaultChecklists(ManagerTargetCard(lists, last'.title)) # {}) =>
        LET before == ManagerTargetCard(lists, last'.title)
            after == ManagerTargetCard(lists', last'.title)
            k == find_default_checklist(before)
        IN /\ Cardinality(DefaultChecklists(after)) = 1
           /\ NamesOf(after.checklists[k].items)
                 = NamesOf(before.checklists[k].items) \o last'.arg

\* the get_next_unchecked_checklist_item tool returns the first item ever
\* added that is still unchecked, and reports none only when there is none
ToolReturnsEveryItem ==
    (last.op = "manager_get_next_unchecked_checklist_item"
        /\ ManagerFound(lists, last.title)) =>
        LET card == ManagerTargetCard(lists, last.title)
            added == DefaultItems(card.checklists)
        IN IF Unchecked(added) # {}
           THEN last.result = "ok" /\ last.value = added[Least(Unchecked(added))]
           ELSE last.result # "ok"

\* C12: the update_task_with_checklist tool of main_cli (bound to
\* TrelloTaskManager) appends to an existing checklist and creates no second
\* one, so every item ever added is returned by the
\* get_next_unchecked_checklist_item tool as the earlier items are completed.
C12_ToolAppends ==
    [][ToolAppends /\ ToolReturnsEveryItem']_vars

---------------------------------------------------------------------------
(* Queries *)

WithStatus(tasks, status) == SelectSeq(tasks, LAMBDA task : task.status = status)

\* C13: get_tasks(P, 'wip') returns exactly the entries of
\* get_tasks(P, 'all') whose status is 'wip', in the same relative order,
\* and get_tasks(P, 'done') exactly those whose status is 'done'; an empty
\* result is a success, not an error.
C13_FilterConsistency ==
    /\ \A P \in Projects : \A f \in {"wip", "done"} :
          LET all == get_tasks_result(lists, P, "all")
              r == get_tasks_result(lists, P, f)
          IN /\ all.result = "ok"
             /\ r.result = "ok"
             /\ r.value = WithStatus(all.value, f)
    /\ (last.op = "get_tasks" /\ last.arg \in {"wip", "done"}) =>
          /\ last.result = "ok"
          /\ last.value = WithStatus(get_tasks_result(lists, last.project, "all").value,
                                     last.arg)

\* the filter kept one of two tasks
C13_Witness ==
    /\ Did("get_tasks")
    /\ last.arg = "wip"
    /\ Len(last.value) = 1
    /\ Len(get_tasks_result(lists, last.project, "all").value) = 2

\* the cards of list P, in the list's order; none when the list is missing
CardsOfProject(board, P) ==
    IF \E l \in DOMAIN board : board[l].name = P
    THEN board[CHOOSE l \in DOMAIN board : board[l].name = P].cards
    ELSE <<>>

Available(cards) ==
    {i \in DOMAIN cards : WIP_LABEL_NAME \notin cards[i].labels /\ ~cards[i].is_due_complete}

---------------------------------------------------------------------------
(* Projects *)

ListNames(board) == {board[l].name : l \in DOMAIN board}

TitleOperations ==
    {"mark_as_in_progress", "mark_as_completed", "update_task_description",
     "update_task_with_checklist", "complete_checklist_item",
     "get_next_unchecked_checklist_item", "get_task_status", "set_task_status"}

\* what an operation called for a project without a list does
OnMissingProject ==
    last'.project \notin ListNames(lists) =>
        CASE last'.op = "add_task" ->
                /\ last'.result = "ok"
                /\ last'.project \in ListNames(lists')
                /\ LET cards == CardsOfProject(lists', last'.project) IN
                   /\ Len(cards) = 1
                   /\ cards[1].name = last'.title
                   /\ cards[1].id = last'.value
          [] last'.op = "get_tasks" ->
                last'.result = "ok" /\ last'.value = <<>>
          [] last'.op = "delete_all_tasks" ->
                last'.result = "ok" /\ last'.value = "not found"
          [] last'.op \in TitleOperations
                /\ (last'.op = "set_task_status" => last'.arg \in ValidStatuses) ->
                last'.result = "TaskNotFoundError"
          [] OTHER -> TRUE

\* C15: add_task is the only operation that creates a project list.  When
\* list P does not exist, add_task(P, ..) creates it and adds the card,
\* get_tasks(P, ..) returns an empty list, delete_all_tasks(P) returns a
\* 'not found' message without error, every title-based operation fails
\* with TaskNotFoundError, and after any of the non-add operations list P
\* still does not exist.
C15_MissingProject ==
    [][/\ OnMissingProject
       /\ last'.op # "add_task" => ListNames(lists') = ListNames(lists)
       /\ (last'.op # "add_task" /\ last'.project \notin ListNames(lists)) => lists' = lists]_vars

\* a title-based operation was refused for a project that has no list
\* while another project has one
C15_Witness ==
    /\ last.op = "update_task_with_checklist"
    /\ last.result = "TaskNotFoundError"
    /\ last.project \notin ListNames(lists)
    /\ ListNames(lists) # {}

---------------------------------------------------------------------------
(* Errors *)

ContainsMessage(text, message) ==
    \E i \in 1..(Len(text) - Len(message) + 1) :
        SubSeq(text, i, i + Len(message) - 1) = message

IsConnectionError(e) ==
    e.type = "TaskServiceConnectionError" /\ ContainsMessage(e.details, OriginalMessage)

\* the except clauses of every operation: an exception of a remote call
\* leaves as TaskServiceConnectionError with the message in its details, a
\* domain error the operation raises leaves as it is
ExceptClauses ==
    \A op \in Operations :
        /\ \A kind \in RemoteExceptions :
              LET e == Exception(kind, OriginalMessage) IN
              /\ IsConnectionError(trello_except(op, e))
              /\ IsConnectionError(jira_except(op, make_request_except(e)))
        /\ \A error \in trello_raises(op) :
              trello_except(op, Exception(error, <<>>)).type = error
        /\ \A error \in jira_raises(op) :
              jira_except(op, Exception(error, <<>>)).type = error
        /\ trello_raises(op) \cup trello_raises_outside(op) \subseteq DomainErrors
        /\ jira_raises(op) \cup jira_raises_outside(op) \subseteq DomainErrors

\* C16: in each of the twelve operations of TrelloTaskService and
\* JiraTaskService, whichever remote call raises an arbitrary exception, the
\* operation raises TaskServiceConnectionError whose details contain the
\* original message; the only other errors an operation raises are the
\* domain errors, which propagate unwrapped.
C16_ErrorTaxonomy ==
    /\ ExceptClauses
    /\ last.op \in Operations \cup {jira_name(op) : op \in Operations} =>
          /\ last.result \in {"ok", "TaskServiceConnectionError"} \cup DomainErrors
          /\ last.cause \in RemoteExceptions =>
                /\ last.result = "TaskServiceConnectionError"
                /\ ContainsMessage(last.details, OriginalMessage)
          /\ last.cause \in DomainErrors => last.result = last.cause

\* a request of the HTTP library failed in a JiraTaskService operation that
\* re-raises TaskServiceConnectionError
C16_Witness ==
    /\ last.op = "jira.update_task_with_checklist"
    /\ last.cause = "RequestException"
    /\ last.result = "TaskServiceConnectionError"
    /\ last.details = <<"Request failed: ">> \o OriginalMessage

\* C17: delete_all_tasks(P) only removes cards of list P.  After a call
\* that returns, get_tasks(P, 'all') is empty.  After a call that fails
\* midway, the cards deleted before the failure stay deleted, the remaining
\* cards of P are unchanged and the error is TaskServiceConnectionError; a
\* later call that returns leaves P empty.  Cards of every other project
\* are unchanged in all cases.
C17_BulkDelete ==
    [][last'.op = "delete_all_tasks" =>
          LET P == last'.project
              before == CardsOfProject(lists, P)
              after == CardsOfProject(lists', P)
          IN /\ \A Q \in Projects \ {P} :
                   CardsOfProject(lists', Q) = CardsOfProject(lists, Q)
             /\ ListNames(lists') = ListNames(lists)
             /\ last'.result \in {"ok", "TaskServiceConnectionError"}
             /\ last'.result = "ok" =>
                   /\ after = <<>>
                   /\ get_tasks_result(lists', P, "all").value = <<>>
             /\ last'.result = "TaskServiceConnectionError" =>
                   /\ \E j \in 0..Len(before) : after = SubSeq(before, j + 1, Len(before))
                   /\ before # <<>> => after # <<>>]_vars

\* a call deleted one card of the project and failed on the next
C17_Witness ==
    /\ last.op = "delete_all_tasks"
    /\ last.result = "TaskServiceConnectionError"
    /\ last.value = 1
    /\ Len(CardsOfProject(lists, last.project)) = 1

---------------------------------------------------------------------------
(* The factory *)

\* the steps of a factory call that are among names, in order
StepsNamed(steps, names) == SelectSeq(steps, LAMBDA x : x.step \in names)

\* the keys of a backend's configuration whose environment variable is empty
EnvMissingKeys(env, service_type) ==
    IF service_type = "trello"
    THEN (IF env.TRELLO_API_KEY = <<>> THEN <<"api_key">> ELSE <<>>)
         \o (IF env.TRELLO_API_TOKEN = <<>> THEN <<"api_token">> ELSE <<>>)
         \o (IF env.TRELLO_BOARD_NAME = <<>> THEN <<"board_name">> ELSE <<>>)
    ELSE (IF env.JIRA_SERVER_URL = <<>> THEN <<"server_url">> ELSE <<>>)
         \o (IF env.JIRA_USERNAME = <<>> THEN <<"username">> ELSE <<>>)
         \o (IF env.JIRA_API_TOKEN = <<>> THEN <<"api_token">> ELSE <<>>)
         \o (IF env.JIRA_PROJECT_KEY = <<>> THEN <<"project_key">> ELSE <<>>)

\* the registry a factory call works on: the defaults when none was set up yet
RegistryInUse == IF initialized THEN service_registry ELSE DefaultRegistry

\* C18: create_service(type, config) proceeds in a fixed order and reports
\* each failure as its own kind.  An identifier that is not a known or
\* registered backend raises UnknownServiceTypeError before any
\* configuration is loaded.  Missing environment keys raise
\* MissingServiceConfigError naming those keys, and the adapter constructor
\* is then not invoked.  The constructor is invoked only after the
\* configuration validated, and any exception it raises is reported as
\* TaskServiceAuthenticationError with that exception as its cause.
C18_CreateServiceOrder ==
    [][last'.op = "create_service" =>
          LET service_type == last'.arg[1]
              config == last'.arg[2]
              service_type_enum == lower(service_type)
              registered == /\ service_type_enum \in ServiceType
                            /\ RegistryInUse[service_type_enum] # None
              loading == StepsNamed(trace', {"load_from_env", "validate", "register_config"})
              constructor == StepsNamed(trace', {"constructor"})
              missing_keys == EnvMissingKeys(environ, service_type_enum)
          IN /\ ~registered =>
                   /\ last'.result = "UnknownServiceTypeError"
                   /\ loading = <<>>
                   /\ constructor = <<>>
                   /\ configs' = configs
             /\ (registered /\ config = NoConfig /\ missing_keys # <<>>) =>
                   /\ last'.result = "MissingServiceConfigError"
                   /\ last'.details = <<"Missing required configuration for ",
                                        service_type_enum, ": ">> \o missing_keys
                   /\ constructor = <<>>
             /\ constructor # <<>> =>
                   /\ Len(constructor) = 1
                   /\ trace'[Len(trace')].step = "constructor"
                   /\ loading # <<>>
                   /\ \A i \in 1..Len(loading) : loading[i].outcome = "ok"
                   /\ IF config = NoConfig
                      THEN validate(IF service_type_enum = "trello"
                                    THEN TrelloConfig_from_env(environ)
                                    ELSE JiraConfig_from_env(environ)).type = "ok"
                      ELSE validate(config).type = "ok"
                   /\ constructor[1].outcome # "ok" =>
                         /\ last'.result = "TaskServiceAuthenticationError"
                         /\ last'.cause = constructor[1].outcome
                   /\ constructor[1].outcome = "ok" => last'.result = "ok"
             /\ last'.result \in {"ok", "TaskServiceAuthenticationError"} => constructor # <<>>]_vars

\* create_service loaded a valid configuration and the constructor raised
C18_Witness ==
    /\ last.op = "create_service"
    /\ last.result = "TaskServiceAuthenticationError"
    /\ last.cause = "TaskServiceConnectionError"
    /\ StepsNamed(trace, {"load_from_env"}) # <<>>

\* create_service found keys missing in the environment
C18_WitnessMissing ==
    /\ last.op = "create_service"
    /\ last.result = "MissingServiceConfigError"
    /\ last.details = <<"Missing required configuration for ", "trello", ": ", "api_key">>

\* create_service(service_type) with the configuration of the environment
\* gives an adapter: the backend is registered, its environment
\* configuration is valid and its adapter constructs
Usable(service_type) ==
    create_service_result(FactoryState, environ, reachable, service_type, NoConfig)
        .raised.type = "ok"

\* C19: whenever ACTIVE_TASK_SERVICE names a supported backend whose
\* environment configuration is valid and whose adapter constructs,
\* create_default_service returns an adapter of that backend, also when
\* the other backend is equally usable and whatever calls were made before.
C19_ActiveFirst ==
    [][last'.op = "create_default_service" =>
          LET active_service == lower(environ.ACTIVE_TASK_SERVICE) IN
          (active_service \in ServiceType /\ Usable(active_service)) =>
              /\ last'.result = "ok"
              /\ last'.value = RegistryInUse[active_service]]_vars

\* C20: create_default_service does not give up before Trello and Jira were
\* tried: if either can be created it returns an adapter, whatever made the
\* active backend fail; it raises only when every attempt failed, and then
\* UnknownServiceTypeError whose message holds the last failure.  Its only
\* outcomes are an adapter or UnknownServiceTypeError.
C20_FallbackExhausted ==
    [][last'.op = "create_default_service" =>
          /\ last'.result \in {"ok", "UnknownServiceTypeError"}
          /\ (Usable("trello") \/ Usable("jira")) => last'.result = "ok"
          /\ last'.result = "UnknownServiceTypeError" =>
                LET tried == StepsNamed(trace', {"from_string"})
                    failed == trace'[Len(trace')]
                IN /\ ~Usable("trello") /\ ~Usable("jira")
                   /\ Len(tried) >= 2
                   /\ tried[Len(tried) - 1].about = "trello"
                   /\ tried[Len(tried)].about = "jira"
                   /\ failed.outcome # "ok"
                   /\ last'.cause \in {"UnknownServiceTypeError", "MissingServiceConfigError",
                                       "ConfigurationValidationError",
                                       "TaskServiceAuthenticationError"}
                   /\ SubSeq(last'.details, 1, 2)
                         = <<"Unknown service type: ",
                             "No valid service configuration found. Last error: ">>
                   /\ Len(last'.details) > 2]_vars

\* the first index of services whose backend can be created, 0 if none
FirstUsable(services) ==
    LET usable == {i \in 1..Len(services) : Usable(services[i])} IN
    IF usable = {} THEN 0 ELSE CHOOSE i \in usable : \A j \in usable : i <= j

\* C21: create_service_with_fallback(preferred, fallbacks) returns the
\* adapter of the first backend, in the order preferred then fallbacks,
\* whose creation succeeds; it raises UnknownServiceTypeError if and only
\* if no backend of the sequence could be created, and no other error.
C21_FallbackOrder ==
    [][last'.op = "create_service_with_fallback" =>
          LET services == <<last'.arg[1]>> \o last'.arg[2]
              first == FirstUsable(services)
          IN /\ last'.result \in {"ok", "UnknownServiceTypeError"}
             /\ first # 0 =>
                   /\ last'.result = "ok"
                   /\ last'.value = RegistryInUse[lower(services[first])]
             /\ first = 0 => last'.result = "UnknownServiceTypeError"]_vars

---------------------------------------------------------------------------
(* The registry *)

\* a subclass of TaskService with no abstract method left
FullService(service_class) ==
    /\ service_class \in {"TrelloTaskService", "JiraTaskService", "CustomService",
                          "PartialService", "TaskService"}
    /\ service_class \notin {"PartialService", "TaskService"}

\* C22: after any sequence of registry and create calls every class held
\* in the registry is a subclass of TaskService with no unimplemented
\* abstract method; register_service with a non-class, a non-subclass or a
\* class that still has abstract methods raises ServiceRegistrationError
\* and leaves the registry unchanged.
C22_RegistryHoldsServices ==
    [][/\ \A service_type \in ServiceType :
             service_registry'[service_type] # None =>
                 FullService(service_registry'[service_type])
       /\ (last'.op = "register_service" /\ ~FullService(last'.arg[2])) =>
             /\ last'.result = "ServiceRegistrationError"
             /\ service_registry' = service_registry
             /\ initialized' = initialized]_vars

\* a class with an abstract method was refused while a registered class stays
C22_Witness ==
    /\ last.op = "register_service"
    /\ last.arg[2] = "PartialService"
    /\ last.result = "ServiceRegistrationError"
    /\ \E service_type \in ServiceType : service_registry[service_type] = "CustomService"

---------------------------------------------------------------------------
(* Configurations *)

\* the required fields of a configuration, in the order they are declared
RequiredFields(config) ==
    IF config.service_name = "trello" THEN <<"api_key", "api_token", "board_name">>
    ELSE <<"server_url", "username", "api_token", "project_key">>

EmptyFields(config) ==
    SelectSeq(RequiredFields(config), LAMBDA field : Len(config[field]) = 0)

\* the fields of a configuration whose value is malformed, in the order
\* they are declared
MalformedFields(config) ==
    IF config.service_name = "trello"
    THEN SelectSeq(<<"api_key", "api_token">>, LAMBDA field : Len(config[field]) < 10)
    ELSE (IF \E scheme \in {<<"h", "t", "t", "p">>, <<"h", "t", "t", "p", "s">>} :
                 startswith(config.server_url, scheme \o <<":", "/", "/">>)
          THEN <<>> ELSE <<"server_url">>)
         \o (IF Len(config.project_key) < 2 THEN <<"project_key">> ELSE <<>>)

\* C23: validate raises MissingConfigurationError naming exactly the empty
\* required fields, in declaration order, if there is any, whatever the
\* other fields hold; otherwise InvalidConfigurationError for the first
\* malformed field; otherwise it returns.  register_config stores a
\* configuration only when validate returned.
C23_Validate ==
    [][last'.op = "register_config" =>
          LET config == last'.arg[1]
              empty == EmptyFields(config)
              malformed == MalformedFields(config)
          IN /\ empty # <<>> =>
                   /\ last'.result = "MissingConfigurationError"
                   /\ last'.details = <<"Missing required configuration for ",
                                        config.service_name, ": ">> \o empty
             /\ (empty = <<>> /\ malformed # <<>>) =>
                   /\ last'.result = "InvalidConfigurationError"
                   /\ SubSeq(last'.details, 1, 4)
                         = <<"Invalid configuration for ", config.service_name, ".",
                             malformed[1]>>
             /\ (empty = <<>> /\ malformed = <<>>) =>
                   /\ last'.result = "ok"
                   /\ \E i \in 1..Len(configs') : configs'[i] = config
                   /\ Len(SelectSeq(configs',
                                    LAMBDA c : c.service_name = config.service_name)) = 1
             /\ last'.result # "ok" => configs' = configs]_vars

\* a configuration with an empty field and a malformed one was refused
C23_Witness ==
    /\ last.op = "register_config"
    /\ last.arg[1].service_name = "trello"
    /\ last.arg[1].api_key = Key3
    /\ last.arg[1].api_token = <<>>
    /\ last.result = "MissingConfigurationError"
    /\ configs # <<>>

---------------------------------------------------------------------------
(* The manager and its cached list *)

ManagerOperations ==
    {"manager_add_task", "manager_get_tasks", "manager_get_next_task",
     "manager_delete_all_tasks", "manager_update_task_with_checklist"}

\* C24: each operation of TrelloTaskManager acts on the list named by its
\* own project_name argument: it reads and modifies only cards of that
\* list, whichever project the calls before it addressed.
C24_OwnProject ==
    [][last'.op \in ManagerOperations =>
          LET P == last'.project IN
          /\ \A Q \in Projects \ {P} : CardsOfProject(lists', Q) = CardsOfProject(lists, Q)
          /\ (last'.op = "manager_get_tasks" /\ last'.result = "ok") =>
                last'.value = get_tasks_result(lists, P, last'.arg).value
          /\ (last'.op = "manager_get_next_task" /\ last'.result = "ok"
                /\ last'.value # None) =>
                \E i \in DOMAIN CardsOfProject(lists, P) :
                    CardsOfProject(lists, P)[i].id = last'.value]_vars

---------------------------------------------------------------------------
(* The next issue *)

\* the issues of a project whose derived status is todo
TodoIssues(project_key) ==
    {i \in DOMAIN issues :
        /\ issues[i].project = project_key
        /\ map_jira_status_to_internal(issues[i].status) = "todo"}

\* C25: JiraTaskService.get_next_task(P) agrees with the status derivation
\* of get_task_status and get_tasks: it returns an issue whose derived
\* status is todo, and it fails with NoAvailableTasksError exactly when no
\* issue of P has derived status todo, whatever workflow state the issues
\* are in.
C25_NextIssue ==
    last.op = "jira.get_next_task" =>
        LET todo == TodoIssues(get_project_key(last.project)) IN
        /\ last.result \in {"ok", "NoAvailableTasksError"}
        /\ last.result = "ok" => \E i \in todo : issues[i].key = last.value
        /\ last.result = "NoAvailableTasksError" <=> todo = {}

---------------------------------------------------------------------------
(* Calls in progress at the same time *)

\* the board without the ids of its cards
EraseIds(board) ==
    [l \in DOMAIN board |->
        [name |-> board[l].name,
         cards |-> [c \in DOMAIN board[l].cards |-> [board[l].cards[c] EXCEPT !.id = 0]]]]

\* the board and the two results after the call of thread t ran from the
\* board at issue to its end and the call of thread u ran after it
OneAfterTheOther(t, u) ==
    LET again(f) == Frame(f.op, f.project, f.title, f.arg) IN
    TheOne({TheOne({[lists |-> second.store.lists,
                     results |-> [x \in {t, u} |->
                         IF x = t THEN <<first.frame.result, first.frame.value>>
                         ELSE <<second.frame.result, second.frame.value>>]]
                    : second \in {run(first.store, again(calls[u]))}})
            : first \in {run(start, again(calls[t]))}})

\* both calls returned, and they were about different projects
BothReturned ==
    /\ \A t \in Threads : calls[t].at = "returned"
    /\ calls[1].project # calls[2].project

Results == [t \in Threads |-> <<calls[t].result, calls[t].value>>]

SerialOutcome ==
    \E order \in {<<1, 2>>, <<2, 1>>} :
        LET serial == OneAfterTheOther(order[1], order[2]) IN
        /\ EraseIds(lists) = EraseIds(serial.lists)
        /\ Results = serial.results

\* C26: every remote call of a call in progress on project P leaves the
\* lists of the other projects as they are, and once two calls on different
\* projects have both returned, the board and the two results are those of
\* running the two calls one after the other.
C26_Isolated ==
    [][/\ \A t \in Threads :
             (InProgress(calls[t]) /\ calls'[t] # calls[t]) =>
                 \A l \in DOMAIN lists :
                     lists[l].name # calls[t].project => lists'[l] = lists[l]
       /\ BothReturned' => SerialOutcome']_vars

\* two calls on different projects returned after their remote calls
\* interleaved: with its card ids, the board is that of neither order
C26_Witness ==
    /\ BothReturned
    /\ \A t \in Threads : calls[t].result = "ok"
    /\ \A order \in {<<1, 2>>, <<2, 1>>} :
          lists # OneAfterTheOther(order[1], order[2]).lists

\* C27: whatever add_task calls were made and however their remote calls
\* interleaved, no two lists of the board have the same name.
C27_OneListPerProject ==
    \A l, m \in DOMAIN lists : lists[l].name = lists[m].name => l = m

---------------------------------------------------------------------------
(* Registrations *)

\* the calls that may change the class registered for a type
RegistryWriters ==
    {"register_service", "register_service_by_name", "unregister_service", "clear_registry"}

\* C28: a class registered for a type stays the class of that type through
\* every factory call other than register_service, unregister_service and
\* clear_registry, and get_registered_services shows that class.
C28_RegistrationStays ==
    [][\A service_type \in ServiceType :
          (service_registry[service_type] # None /\ last'.op \notin RegistryWriters) =>
              /\ service_registry'[service_type] = service_registry[service_type]
              /\ last'.op = "get_registered_services" =>
                    last'.value[service_type] = service_registry[service_type]]_vars

---------------------------------------------------------------------------
(* What the title-based operations leave alone *)

\* a card without its labels
Unlabelled(card) == [card EXCEPT !.labels = {}]

\* C29: mark_as_in_progress changes nothing but the WIP label of a card: the
\* due-complete flag, the other labels and every other field stay, so a
\* complete card stays done for get_task_status and is not the card that
\* get_next_task returns.
C29_OnlyTheLabel ==
    [][last'.op = "mark_as_in_progress" =>
          LET at == find_card_or_raise(lists, last'.project, last'.title) IN
          /\ DOMAIN lists' = DOMAIN lists
          /\ \A l \in DOMAIN lists :
                /\ lists'[l].name = lists[l].name
                /\ DOMAIN lists'[l].cards = DOMAIN lists[l].cards
                /\ \A c \in DOMAIN lists[l].cards :
                      /\ Unlabelled(lists'[l].cards[c]) = Unlabelled(lists[l].cards[c])
                      /\ lists'[l].cards[c].labels \ {labels[WIP_LABEL_NAME]}
                            = lists[l].cards[c].labels \ {labels[WIP_LABEL_NAME]}
          /\ (at # <<0, 0>> /\ CardAt(lists, at).is_due_complete) =>
                /\ get_task_status_result(lists', last'.project, last'.title)
                      = [result |-> "ok", value |-> "done"]
                /\ LET next == get_next_task_result(lists', last'.project) IN
                   next.result = "ok" => next.value # CardAt(lists, at).id]_vars

\* C29 witness: mark_as_in_progress put the WIP label on a complete card
C29_Witness ==
    /\ Did("mark_as_in_progress")
    /\ last.result = "ok"
    /\ last.pre = [found |-> TRUE, wip |-> FALSE, done |-> TRUE]
    /\ MarkersOf(TargetCard(lists, last.project, last.title)) = [wip |-> TRUE, done |-> TRUE]

\* the operations that look a card up by its title and change it
TitleMutations ==
    {"mark_as_in_progress", "mark_as_completed", "set_task_status",
     "update_task_description", "update_task_with_checklist", "complete_checklist_item"}

\* the operations that only read
ReadOperations ==
    {"get_next_task", "get_tasks", "get_task_status", "get_next_unchecked_checklist_item"}

\* whether <<l, c>> is the first card named T of the first list named P
IsFirstNamed(board, l, c, P, T) ==
    /\ board[l].name = P
    /\ \A k \in 1..(l - 1) : board[k].name # P
    /\ board[l].cards[c].name = T
    /\ \A k \in 1..(c - 1) : board[l].cards[k].name # T

\* C30: a title-based mutation on (P,T) changes at most the first card
\* named T of list P: every other card, a later card named T included, and
\* every other list stay as they were; a read operation changes no card.
C30_OneCard ==
    [][/\ last'.op \in TitleMutations =>
             /\ DOMAIN lists' = DOMAIN lists
             /\ \A l \in DOMAIN lists :
                   /\ lists'[l].name = lists[l].name
                   /\ DOMAIN lists'[l].cards = DOMAIN lists[l].cards
                   /\ \A c \in DOMAIN lists[l].cards :
                         \/ lists'[l].cards[c] = lists[l].cards[c]
                         \/ IsFirstNamed(lists, l, c, last'.project, last'.title)
       /\ last'.op \in ReadOperations => lists' = lists]_vars

\* C30 witness: list P holds two cards named T, and a mutation changed the
\* first of them only
C30_Witness ==
    /\ last.op \in TitleMutations
    /\ last.result = "ok"
    /\ \E l \in DOMAIN lists :
          /\ lists[l].name = last.project
          /\ Len(lists[l].cards) = 2
          /\ \A c \in DOMAIN lists[l].cards : lists[l].cards[c].name = last.title
          /\ lists[l].cards[2] = NewCard(2, last.title, <<"d">>)
          /\ lists[l].cards[1] # NewCard(1, last.title, <<"d">>)

=============================================================================
